---- MODULE Spec2Model ----
(***************************************************************************)
(* NoRegrets+ (JavaScript reimplementation): the tracer that extracts an   *)
(* API model (access-path tree, rho-relations) and the replayer that       *)
(* checks a library against a model.                                       *)
(*                                                                         *)
(* Runtime values are records [t, v, native, wraps]:                       *)
(*   t      the class of the value (what typeof / instanceof / isArray     *)
(*          tell the classifiers of lib/utils.js),                         *)
(*   v      the token of a primitive ("" otherwise),                       *)
(*   native TRUE for a function whose source text holds "[native code]",   *)
(*   wraps  the access paths of the tracer mediators around the value,     *)
(*          outermost first (<<>> for a value that is no mediator).        *)
(* A type tag is [k |-> "str", s |-> name] for the string tags and         *)
(* [k |-> "lit", primType, value] for the literal tag {primType, value}.   *)
(* The path tree is a function from access paths to [type, order]: the     *)
(* nested child maps of the source are keyed by the identity of a path     *)
(* component, so a node is its path.                                       *)
(***************************************************************************)
EXTENDS Integers, Sequences, FiniteSets, TLC

VARIABLES
    pathTree,       \* the path tree of the generator script
    order,          \* its order counter
    rhoRelations,   \* its list of (source path, sink path)
    held,           \* the mediators handed out and in use
    stack,          \* the traced invocations whose target is running, with the
                    \* arguments the target was given
    pc,             \* "tracing", then "written" or "crashed"
    argv,           \* the script run and its options, known when it ends
    model,          \* the model file written
    obs,            \* history: the paths in the sequence of their creation
    returned,       \* history: the invocations with an argument whose target returned
    rerecorded,     \* history: a path was recorded again with another type
    clients,        \* the client files of the run and how far they have run
    type1,          \* checkCompatible: the actual type
    type2,          \* checkCompatible: the required type
    verdict,        \* checkCompatible: [done, value], the value returned
    modelTree,      \* check-type.js: the model tree
    replayRho,      \* its rhoRelations
    warnings,       \* the warnings it has logged
    rstack,         \* the calls of traverseTree in progress
    rpc,            \* "start", "running", "done", or the error that ended it
    checked,        \* history: the nodes whose type a handler has compared
    unchanged,      \* history: the library has answered as the traced one
    handled,        \* history: the nodes in the order the handlers processed them
    proxyUses,      \* history: the calls and the property reads of synthesized values
    traced          \* the values first observed at the nodes in the traced run

tracerVars == <<pathTree, order, rhoRelations, held, stack, pc, argv, model,
                obs, returned, rerecorded>>

compatVars == <<type1, type2, verdict>>

replayVars == <<modelTree, replayRho, warnings, rstack, rpc, checked, unchanged,
                handled, proxyUses, traced>>

vars == <<tracerVars, clients, compatVars, replayVars>>

----------------------------------------------------------------------------
(* Bounds of the model. *)

\* nodes the tracer may create
MaxOrder == 3
\* nested invocations in flight
MaxStack == 1
\* positional arguments of one invocation
MaxArgs == 1
\* mediators around one value
MaxWraps == 2
\* rho-relations recorded
MaxRho == 1
\* mediators in use at one time
MaxHeld == 4
\* nested calls of traverseTree
MaxDepth == 8

LibraryName == "lib"
CallIdSeq == <<"c1", "c2", "c3", "c4">>
CallIds == {CallIdSeq[i] : i \in 1..Len(CallIdSeq)}

----------------------------------------------------------------------------
(* Path components (spec 3.2), with the fields the source gives them. *)

Require(m) == [compType |-> "require", moduleName |-> m]
AccessProp(p) == [compType |-> "accessProp", propName |-> p]
WriteProp(p) == [compType |-> "writeProp", propName |-> p]
Arg(c, i) == [compType |-> "arg", callId |-> c, argId |-> i]
Call(c) == [compType |-> "call", callId |-> c]
New(c) == [compType |-> "new", callId |-> c]

----------------------------------------------------------------------------
(* Runtime values. *)

Val(t, v) == [t |-> t, v |-> v, native |-> FALSE, wraps |-> <<>>]
NativeFunction == [t |-> "function", v |-> "", native |-> TRUE, wraps |-> <<>>]

Primitives == {"string", "number", "boolean"}

\* typeof x
TypeOf(x) ==
    IF x.t \in {"string", "number", "boolean", "undefined", "function"}
    THEN x.t ELSE "object"

\* x['@@__PATH__@@']: a mediator answers with its path, anything else with
\* undefined (<<>> here)
PathOf(x) == IF x.wraps = <<>> THEN <<>> ELSE Head(x.wraps)

StrTag(s) == [k |-> "str", s |-> s]
LitTag(pt, val) == [k |-> "lit", primType |-> pt, value |-> val]

----------------------------------------------------------------------------
(* lib/utils.js *)

getType(obj) ==
    CASE obj.t = "null" -> StrTag("null")
      [] obj.t = "undefined" -> StrTag("undefined")
      [] obj.t = "string" -> StrTag("string")
      [] obj.t = "number" -> StrTag("number")
      [] obj.t = "array" -> StrTag("array")
      [] obj.t = "boolean" -> StrTag("boolean")
      [] obj.t = "set" -> StrTag("set")
      [] obj.t = "map" -> StrTag("map")
      [] obj.t = "error" -> StrTag("error")
      [] obj.t = "object" -> StrTag("object")
      [] obj.t = "function" -> StrTag("function")
      [] OTHER -> StrTag("")

getArgumentType(arg) ==
    CASE arg.t = "null" -> StrTag("null")
      [] arg.t = "undefined" -> StrTag("undefined")
      [] arg.t \in Primitives -> LitTag(arg.t, [t |-> arg.t, v |-> arg.v])
      [] arg.t = "array" -> StrTag("array")
      [] arg.t = "error" -> StrTag("error")
      [] arg.t = "map" -> StrTag("map")
      [] arg.t = "set" -> StrTag("set")
      [] arg.t = "object" -> StrTag("object")
      [] arg.t = "function" -> StrTag("function")
      [] OTHER -> StrTag(arg.t)

arrowCount(path) ==
    Cardinality({i \in 1..Len(path) : path[i].compType \in {"arg", "writeProp"}})

isCovariant(path) == arrowCount(path) % 2 = 0

----------------------------------------------------------------------------
(* The tracer: path tree and mediators.                                    *)
(* The handlers thread a record st = [tree, order, rho, held, obs, rerec,  *)
(* threw]: pathTree, order and rhoRelations of the script, the mediators   *)
(* in use, two history fields (the paths in the sequence of their          *)
(* creation; whether an existing path was recorded again with another      *)
(* type), and whether a TypeError has left the handler.                    *)

\* The child maps of a node are plain objects: looked up under one of these
\* names they answer with the member inherited from Object.prototype.
ObjectPrototypeKeys == {"constructor", "toString", "valueOf", "hasOwnProperty"}

\* !t.accessPropChildren[propName] / !t.writePropChildren[propName] is false
\* without any child having been stored
inheritedChild(pathComp) ==
    /\ pathComp.compType \in {"accessProp", "writeProp"}
    /\ pathComp.propName \in ObjectPrototypeKeys

\* createNode with order: order in place of order: order++ (the counter
\* stands still); C6 does not hold of it
createNodeOrderKept(st, prefix, type) ==
    [st EXCEPT !.tree = prefix :> [type |-> type, order |-> st.order] @@ @,
               !.obs = Append(@, prefix)]

\* the node the loop stores for a missing prefix:
\* { p: pathComp, ...Children: {}, type: type, order: order++, parent: t }
createNode(st, prefix, type) ==
    [st EXCEPT !.tree = prefix :> [type |-> type, order |-> st.order] @@ @,
               !.order = @ + 1,
               !.obs = Append(@, prefix)]

\* the loop of addPathAndType from component i on.  t is the node of the
\* prefix before i, unless the component before i was answered by an
\* inherited member: that has no child maps, and reading one throws.
RECURSIVE addPathAndTypeFrom(_, _, _, _)
addPathAndTypeFrom(st, path, type, i) ==
    IF st.threw \/ i > Len(path) THEN st
    ELSE IF i > 1 /\ inheritedChild(path[i - 1]) THEN [st EXCEPT !.threw = TRUE]
    ELSE IF inheritedChild(path[i]) THEN addPathAndTypeFrom(st, path, type, i + 1)
    ELSE LET prefix == SubSeq(path, 1, i) IN
         IF prefix \in DOMAIN st.tree
         THEN addPathAndTypeFrom(st, path, type, i + 1)
         ELSE addPathAndTypeFrom(createNode(st, prefix, type), path, type, i + 1)

\* addPathAndType that stores the type of the last observation in a node
\* that exists; C5 does not hold of it
addPathAndTypeLastWins(st, path, type) ==
    LET st2 == addPathAndTypeFrom(st, path, type, 1)
    IN  IF path \in DOMAIN st2.tree THEN [st2 EXCEPT !.tree[path].type = type]
        ELSE st2

addPathAndType(st, path, type) ==
    addPathAndTypeFrom(
        [st EXCEPT !.rerec = @ \/ (path \in DOMAIN st.tree /\ st.tree[path].type # type)],
        path, type, 1)

\* the type the handlers record for a value observed at newPath
recordedType(newPath, x) ==
    IF isCovariant(newPath) THEN getType(x) ELSE getArgumentType(x)

\* new Proxy(obj, handlers of path)
getProxy(obj, path) == [obj EXCEPT !.wraps = <<path>> \o @]

\* the mediator made by getProxy(obj, path) comes into use; of the mediators
\* made for one path the client and the library go on using the first
wrap(st, obj, path) ==
    IF \E m \in st.held : Head(m.wraps) = path THEN st
    ELSE [st EXCEPT !.held = @ \cup {getProxy(obj, path)}]

\* f.toString().indexOf('[native code]') >= 0: a host-native function, and
\* also a mediator of a function (the source text of a Proxy is native)
hasNativeCode(f) == f.native \/ f.wraps # <<>>

\* a Symbol key, the one key of the model that is no string
SymbolKey == "Symbol(Symbol.iterator)"

\* the reserved name under which a mediator answers with its path
PathKey == "@@__PATH__@@"

\* the array a read of PathKey returns
PathValue(path) ==
    [t |-> "array", v |-> "", native |-> FALSE, wraps |-> <<>>, path |-> path]

\* a get trap without the three early returns
RECURSIVE getTrapOfEveryKey(_, _, _, _)
getTrapOfEveryKey(st, x, p, raw) ==
    LET path == Head(x.wraps)
        target == [x EXCEPT !.wraps = Tail(@)]
        inner == IF target.wraps = <<>> THEN [st |-> st, ret |-> raw]
                 ELSE getTrapOfEveryKey(st, target, p, raw)
        tp == inner.ret
        newPath == Append(path, AccessProp(p))
        type == recordedType(newPath, tp)
        st2 == addPathAndType(inner.st, newPath, type)
    IN  IF inner.st.threw THEN inner
        ELSE IF st2.threw THEN [st |-> st2, ret |-> tp]
        ELSE IF tp.t # "null" /\ type \in {StrTag("object"), StrTag("function")}
             THEN [st |-> wrap(st2, tp, newPath), ret |-> getProxy(tp, newPath)]
             ELSE [st |-> st2, ret |-> tp]

\* get trap of mediator x for the key p, raw being the value the innermost
\* target holds under p; [st, ret].  target[p] runs the trap of a target
\* that is a mediator.
RECURSIVE getTrap(_, _, _, _)
getTrap(st, x, p, raw) ==
    LET path == Head(x.wraps)
        target == [x EXCEPT !.wraps = Tail(@)]
        inner == IF target.wraps = <<>> THEN [st |-> st, ret |-> raw]
                 ELSE getTrap(st, target, p, raw)
        tp == inner.ret
        newPath == Append(path, AccessProp(p))
        type == recordedType(newPath, tp)
        st2 == addPathAndType(inner.st, newPath, type)
    IN  IF p = SymbolKey THEN inner
        ELSE IF p = PathKey THEN [st |-> st, ret |-> PathValue(path)]
        ELSE IF inner.st.threw THEN inner
        ELSE IF tp.t = "function" /\ hasNativeCode(tp)
        THEN [st |-> inner.st, ret |-> tp]
        ELSE IF st2.threw THEN [st |-> st2, ret |-> tp]
        ELSE IF tp.t # "null" /\ type \in {StrTag("object"), StrTag("function")}
             THEN [st |-> wrap(st2, tp, newPath), ret |-> getProxy(tp, newPath)]
             ELSE [st |-> st2, ret |-> tp]

\* set trap of mediator x; target[p] = newValue runs the trap of a target
\* that is a mediator
RECURSIVE setTrap(_, _, _, _)
setTrap(st, x, p, newValue) ==
    LET path == Head(x.wraps)
        target == [x EXCEPT !.wraps = Tail(@)]
        newPath == Append(path, WriteProp(p))
        st2 == addPathAndType(st, newPath, recordedType(newPath, newValue))
    IN  IF st2.threw \/ target.wraps = <<>> THEN st2
        ELSE setTrap(st2, target, p, newValue)

\* the argument loop of the apply trap, from argument i (0-based) on;
\* [st, args]: args are the proxiedArgArray
RECURSIVE applyArgs(_, _, _, _, _)
applyArgs(st, path, callId, argArray, i) ==
    IF st.threw \/ i >= Len(argArray) THEN [st |-> st, args |-> <<>>]
    ELSE LET a == argArray[i + 1]
             newPath == Append(path, Arg(callId, i))
             st2 == addPathAndType(st, newPath, recordedType(newPath, a))
             wrapped == TypeOf(a) \in {"object", "function"} /\ a.t # "null"
             argPath == PathOf(a)
             st3 == IF wrapped /\ ~st2.threw
                    THEN [wrap(st2, a, newPath) EXCEPT
                            !.rho = IF argPath # <<>>
                                    THEN Append(@, <<argPath, newPath>>) ELSE @]
                    ELSE st2
             rest == applyArgs(st3, path, callId, argArray, i + 1)
         IN  [st |-> rest.st,
              args |-> <<IF wrapped THEN getProxy(a, newPath) ELSE a>> \o rest.args]

\* the argument loop of the construct trap.  The mediators it makes are
\* pushed to proxiedArgArray, which nothing reads: the target is constructed
\* with argArray itself, and no mediator of an arg path comes into use.
RECURSIVE constructArgs(_, _, _, _, _)
constructArgs(st, path, callId, argArray, i) ==
    IF st.threw \/ i >= Len(argArray) THEN st
    ELSE LET a == argArray[i + 1]
             newPath == Append(path, Arg(callId, i))
             st2 == addPathAndType(st, newPath, recordedType(newPath, a))
             wrapped == TypeOf(a) = "object" /\ a.t # "null"
             argPath == PathOf(a)
             st3 == IF wrapped /\ ~st2.threw /\ argPath # <<>>
                    THEN [st2 EXCEPT !.rho = Append(@, <<argPath, newPath>>)]
                    ELSE st2
         IN  constructArgs(st3, path, callId, argArray, i + 1)

\* apply / construct trap of a mediator with the given wraps, up to the
\* invocation of the innermost target: a mediator around a mediator runs the
\* trap of the inner one as its target.  callIds holds one id per mediator.
\* [st, args, levels]: levels lists (path, callId) outermost first.
RECURSIVE invokeTraps(_, _, _, _, _)
invokeTraps(st, kind, wraps, callIds, argArray) ==
    IF st.threw \/ wraps = <<>> THEN [st |-> st, args |-> argArray, levels |-> <<>>]
    ELSE LET path == Head(wraps)
             callId == Head(callIds)
             a == IF kind = "call"
                  THEN applyArgs(st, path, callId, argArray, 0)
                  ELSE [st |-> constructArgs(st, path, callId, argArray, 0),
                        args |-> argArray]
             rest == invokeTraps(a.st, kind, Tail(wraps), Tail(callIds), a.args)
         IN  [st |-> rest.st, args |-> rest.args,
              levels |-> <<[path |-> path, callId |-> callId]>> \o rest.levels]

\* the part of the apply trap after the target returned result; [st, ret]
applyReturn(st, path, callId, result) ==
    LET newPath == Append(path, Call(callId))
        type == recordedType(newPath, result)
        st2 == addPathAndType(st, newPath, type)
    IN  IF st2.threw THEN [st |-> st2, ret |-> result]
        ELSE IF result.t # "null" /\ TypeOf(result) = "object" /\ PathOf(result) # <<>>
        THEN [st |-> st2, ret |-> result]
        ELSE IF type \in {StrTag("object"), StrTag("function")}
             THEN [st |-> wrap(st2, result, newPath), ret |-> getProxy(result, newPath)]
             ELSE [st |-> st2, ret |-> result]

\* the part of the construct trap after the target returned result
constructReturn(st, path, callId, result) ==
    LET newPath == Append(path, New(callId))
        st2 == addPathAndType(st, newPath, recordedType(newPath, result))
    IN  IF st2.threw THEN [st |-> st2, ret |-> result]
        ELSE [st |-> wrap(st2, result, newPath), ret |-> getProxy(result, newPath)]

\* the traps of the mediators of one invocation return, innermost first; an
\* exception in one of them leaves the outer ones too.  [st, ret, back]:
\* back lists the levels whose target returned.
RECURSIVE returnTraps(_, _, _, _)
returnTraps(st, kind, levels, result) ==
    IF st.threw \/ levels = <<>> THEN [st |-> st, ret |-> result, back |-> <<>>]
    ELSE LET n == Len(levels)
             l == levels[n]
             r == IF kind = "call" THEN applyReturn(st, l.path, l.callId, result)
                  ELSE constructReturn(st, l.path, l.callId, result)
             rest == returnTraps(r.st, kind, SubSeq(levels, 1, n - 1), r.ret)
         IN  [st |-> rest.st, ret |-> rest.ret, back |-> <<l>> \o rest.back]

----------------------------------------------------------------------------
(* The tracing run: the client and the library act on the mediators.      *)

\* the values the client and the library make themselves in the runs
\* explored: what a property holds, what is passed or written, what a target
\* returns
Number1 == Val("number", "1")
StringA == Val("string", "a")
Null == Val("null", "")
Object == Val("object", "")
Function == Val("function", "")

PropNames == {"f", "constructor"}

\* x came out of a constructor of the library
constructed(x) ==
    \E i \in 1..Len(x.wraps) : x.wraps[i][Len(x.wraps[i])].compType = "new"

\* the keys the client and the library read on a mediator
Keys == PropNames \cup {SymbolKey, PathKey}

\* what the library's object x holds under p: a function or a string under
\* f; under constructor the function of the library that made x, and the
\* host's Object or Function on the objects no constructor of it made; a
\* function of the library under the Symbol key; nothing of interest under
\* the reserved name, which the mediator answers itself
PropValues(x, p) ==
    IF p = "f" THEN {Function, StringA}
    ELSE IF p = SymbolKey THEN {Function}
    ELSE IF p = PathKey THEN {StringA}
    ELSE IF constructed(x) THEN {Function} ELSE {NativeFunction}

SuppliedValues == {StringA, Function}

ResultValues == {Number1, Null, Object}

St == [tree |-> pathTree, order |-> order, rho |-> rhoRelations, held |-> held,
       obs |-> obs, rerec |-> rerecorded, threw |-> FALSE]

InBounds(st) ==
    /\ st.order <= MaxOrder
    /\ Len(st.rho) <= MaxRho
    /\ \A x \in st.held : Len(x.wraps) <= MaxWraps
    /\ Cardinality(st.held) <= MaxHeld

\* the handlers leave the state st of the script
Store(st) ==
    /\ pathTree' = st.tree
    /\ order' = st.order
    /\ rhoRelations' = st.rho
    /\ held' = st.held
    /\ obs' = st.obs
    /\ rerecorded' = st.rerec

Commit(st) == InBounds(st) /\ Store(st)

UsedCallIds ==
    {c \in CallIds :
        \/ \E path \in DOMAIN pathTree : \E i \in 1..Len(path) :
             path[i].compType \in {"arg", "call", "new"} /\ path[i].callId = c
        \/ \E i \in 1..Len(stack) : \E j \in 1..Len(stack[i].levels) :
             stack[i].levels[j].callId = c}

\* makeRandomString(6): an id used before in the run (a collision) or a new
\* one; the ids not used yet are interchangeable, the first stands for them
makeRandomString ==
    UsedCallIds \cup
    {CallIdSeq[i] : i \in {j \in 1..Len(CallIdSeq) :
        /\ CallIdSeq[j] \notin UsedCallIds
        /\ \A k \in 1..(j - 1) : CallIdSeq[k] \in UsedCallIds}}

ArgArrays == UNION {[1..n -> SuppliedValues \cup held] : n \in 0..MaxArgs}

NoModel == [paths |-> <<>>, rhoRelations |-> <<>>, written |-> FALSE]

\* the one client of a run that is not described file by file
NoClients ==
    [mocha |-> FALSE, files |-> <<>>, file |-> 1, at |-> 1, ids |-> <<>>,
     logged |-> {}, run |-> 1, previous |-> NoModel]

\* javaScriptFiles.forEach has returned
clientsHaveRun == clients.file > Len(clients.files)

TracerInit ==
    /\ pathTree = <<>>
    /\ order = 0
    /\ rhoRelations = <<>>
    /\ held = {}
    /\ stack = <<>>
    /\ pc = "tracing"
    /\ argv = [script |-> "", compress |-> FALSE]
    /\ model = NoModel
    /\ obs = <<>>
    /\ returned = {}
    /\ rerecorded = FALSE

\* the client requires the library under test
mockedRequire ==
    /\ pc = "tracing"
    /\ \E lib \in {Object, Function} :
         LET initPath == <<Require(LibraryName)>>
             st2 == wrap(St, lib, initPath)
         IN  Commit(addPathAndType(st2, initPath, getType(lib)))
    /\ UNCHANGED <<stack, pc, argv, model, returned>>
    /\ UNCHANGED <<clients, compatVars, replayVars>>

\* a read of the string key p on a mediator
Get ==
    /\ pc = "tracing"
    /\ \E x \in held, p \in Keys : \E raw \in PropValues(x, p) :
         Commit(getTrap(St, x, p, raw).st)
    /\ UNCHANGED <<stack, pc, argv, model, returned>>
    /\ UNCHANGED <<clients, compatVars, replayVars>>

\* a write of p on a mediator
Set ==
    /\ pc = "tracing"
    /\ \E x \in held, p \in PropNames, newValue \in SuppliedValues :
         Commit(setTrap(St, x, p, newValue))
    /\ UNCHANGED <<stack, pc, argv, model, returned>>
    /\ UNCHANGED <<clients, compatVars, replayVars>>

\* a mediator of a function is called or constructed: the traps run up to
\* the invocation of the target
Invoke(kind) ==
    /\ pc = "tracing"
    /\ Len(stack) < MaxStack
    /\ \E x \in held, argArray \in ArgArrays :
         /\ x.t = "function"
         /\ \E callIds \in [1..Len(x.wraps) -> makeRandomString] :
              LET r == invokeTraps(St, kind, x.wraps, callIds, argArray)
              IN  /\ Commit(r.st)
                  /\ stack' = IF r.st.threw THEN stack
                              ELSE Append(stack, [kind |-> kind, levels |-> r.levels,
                                                  args |-> r.args])
    /\ UNCHANGED <<pc, argv, model, returned>>
    /\ UNCHANGED <<clients, compatVars, replayVars>>

Apply == Invoke("call")

Construct == Invoke("new")

Invocations(kind, levels) ==
    { [parent |-> levels[i].path, callId |-> levels[i].callId, kind |-> kind] :
        i \in 1..Len(levels) }

\* the target of the innermost invocation in flight returns
Return ==
    /\ pc = "tracing"
    /\ stack # <<>>
    /\ LET frame == stack[Len(stack)] IN
       \E result \in ResultValues \cup held :
         /\ frame.kind = "new" =>
              (TypeOf(result) \in {"object", "function"} /\ result.t # "null")
         /\ LET r == returnTraps(St, frame.kind, frame.levels, result)
            IN  /\ Commit(r.st)
                /\ returned' = returned \cup
                     {inv \in Invocations(frame.kind, r.back) :
                        Append(inv.parent, Arg(inv.callId, 0)) \in DOMAIN pathTree}
    /\ stack' = SubSeq(stack, 1, Len(stack) - 1)
    /\ UNCHANGED <<pc, argv, model>>
    /\ UNCHANGED <<clients, compatVars, replayVars>>

\* the target of the innermost invocation in flight throws: the exception
\* leaves the traps, which record nothing more
Throw ==
    /\ pc = "tracing"
    /\ stack # <<>>
    /\ stack' = SubSeq(stack, 1, Len(stack) - 1)
    /\ UNCHANGED <<pathTree, order, rhoRelations, held, pc, argv, model, obs,
                   returned, rerecorded>>
    /\ UNCHANGED <<clients, compatVars, replayVars>>

----------------------------------------------------------------------------
(* The end of the generator scripts: compression and the model file.  The  *)
(* repository holds two generator scripts (the first and the second half   *)
(* of src/unnamed/part_000) with the same tracer.                          *)

\* the entries pathTreeToList pushes; the sort that follows fixes their
\* sequence
pathTreeToList(tree) ==
    {[path |-> path, type |-> tree[path].type, order |-> tree[path].order] :
        path \in DOMAIN tree}

\* allPaths.sort((a, b) => a.order - b.order)
RECURSIVE sortByOrder(_)
sortByOrder(allPaths) ==
    IF allPaths = {} THEN <<>>
    ELSE LET a == CHOOSE x \in allPaths : \A y \in allPaths : x.order <= y.order
         IN  <<a>> \o sortByOrder(allPaths \ {a})

\* the replacer of JSON.stringify followed by JSON itself, on the value of a
\* literal tag: Infinity and NaN become strings, -Infinity becomes null
jsonValue(val) ==
    IF val.t = "number" /\ val.v \in {"Infinity", "NaN"} THEN [t |-> "string", v |-> val.v]
    ELSE IF val.t = "number" /\ val.v = "-Infinity" THEN [t |-> "null", v |-> ""]
    ELSE val

jsonType(type) ==
    IF type.k = "lit" THEN [type EXCEPT !.value = jsonValue(@)] ELSE type

\* JSON.stringify({paths: allPaths, rhoRelations: rhoRelations}, replacer)
writeModel(tree, rho) ==
    LET allPaths == sortByOrder(pathTreeToList(tree))
    IN  [paths |-> [i \in 1..Len(allPaths) |->
                       [allPaths[i] EXCEPT !.type = jsonType(@)]],
         rhoRelations |-> rho,
         written |-> TRUE]

\* second script: computeTreeHash begins with for (let k of
\* currentNode.callChildren); callChildren is a plain object, which is not
\* iterable, so the statement throws a TypeError for every node
computeTreeHash(currentNode) == "TypeError"

\* first script: compress() reads allPaths and calls tryRemovePath, neither
\* of which is declared in its scope, so it throws a ReferenceError
compress == "ReferenceError"

\* the clients have run; second script, lines 1063-1087: the hashes are
\* computed before the compress option is looked at
generateModelSecond ==
    /\ pc = "tracing"
    /\ clientsHaveRun
    /\ stack = <<>>
    /\ \E c \in BOOLEAN : argv' = [script |-> "second", compress |-> c]
    /\ computeTreeHash(<<>>) = "TypeError"
    /\ pc' = "crashed"
    /\ UNCHANGED <<pathTree, order, rhoRelations, held, stack, model, obs,
                   returned, rerecorded>>
    /\ UNCHANGED <<clients, compatVars, replayVars>>

\* the clients have run; first script, lines 494-516, with --compress
generateModelFirstCompress ==
    /\ pc = "tracing"
    /\ clientsHaveRun
    /\ stack = <<>>
    /\ argv' = [script |-> "first", compress |-> TRUE]
    /\ compress = "ReferenceError"
    /\ pc' = "crashed"
    /\ UNCHANGED <<pathTree, order, rhoRelations, held, stack, model, obs,
                   returned, rerecorded>>
    /\ UNCHANGED <<clients, compatVars, replayVars>>

\* the clients have run; first script, lines 494-516, with --no-compress
\* and an output path
generateModelFirst ==
    /\ pc = "tracing"
    /\ clientsHaveRun
    /\ stack = <<>>
    /\ argv' = [script |-> "first", compress |-> FALSE]
    /\ model' = writeModel(pathTree, rhoRelations)
    /\ pc' = "written"
    /\ UNCHANGED <<pathTree, order, rhoRelations, held, stack, obs, returned,
                   rerecorded>>
    /\ UNCHANGED <<clients, compatVars, replayVars>>

----------------------------------------------------------------------------
(* check-type.js: the compatibility relation.                              *)
(* In the position of a type the replayer also meets the values null and   *)
(* undefined (no type recorded for an argument): [k |-> "null"] and        *)
(* [k |-> "undefined"].                                                    *)

NullTag == [k |-> "null"]
UndefinedTag == [k |-> "undefined"]

Prim(t, v) == [t |-> t, v |-> v]

\* ToNumber of a primitive; numbers are written as their tokens
ToNumber(x) ==
    CASE x.t = "number" -> x.v
      [] x.t = "boolean" -> IF x.v = "true" THEN "1" ELSE "0"
      [] x.t = "string" ->
            IF x.v \in {"0", "1", "2", "Infinity", "-Infinity"} THEN x.v
            ELSE IF x.v = "" THEN "0" ELSE "NaN"
      [] OTHER -> "NaN"

\* x == y on primitives and null
looseEquals(x, y) ==
    IF x.t = y.t THEN x.v = y.v /\ ~(x.t = "number" /\ x.v = "NaN")
    ELSE IF x.t = "null" \/ y.t = "null" THEN FALSE
    ELSE ToNumber(x) = ToNumber(y) /\ ToNumber(x) # "NaN"

\* deepEqual(a, b) of the package deep-equal, called without options: the
\* leaves are compared with ==.  Two type tags: strings, literal objects
\* with the keys primType and value, null or undefined.
deepEqual(a, b) ==
    IF a.k = "lit" /\ b.k = "lit"
    THEN /\ a.primType = b.primType
         /\ looseEquals(a.value, b.value)
    ELSE IF a.k = "str" /\ b.k = "str" THEN a.s = b.s
    ELSE a.k \in {"null", "undefined"} /\ b.k \in {"null", "undefined"}

\* type2 === type1: a literal tag read from the model file and one made by
\* getArgumentType are two objects
strictEquals(a, b) ==
    \/ a.k = "str" /\ b.k = "str" /\ a.s = b.s
    \/ a.k = b.k /\ a.k \in {"null", "undefined"}

checkCompatible(t1, t2) ==
    IF t2 = NullTag THEN TRUE
    ELSE IF /\ t2 = StrTag("object")
            /\ t1 \in {StrTag("object"), StrTag("function"), StrTag("map"), StrTag("set")}
         THEN TRUE
    ELSE IF strictEquals(t2, t1) THEN TRUE
    ELSE deepEqual(t2, t1)

\* types2[i] of an index past the end of types2 is undefined
checkAllCompatible(types1, types2) ==
    \A i \in 1..Len(types1) :
        checkCompatible(types1[i], IF i <= Len(types2) THEN types2[i] ELSE UndefinedTag)

\* the values whose types are compared
ClassifiedValues ==
    {Val(t, "") : t \in {"null", "undefined", "array", "set", "map", "error",
                         "object", "function"}}
    \cup {Val("string", v) : v \in {"a", "Infinity"}}
    \cup {Val("number", v) : v \in {"1", "NaN", "Infinity", "-Infinity"}}
    \cup {Val("boolean", "true")}

\* the actual types: made by the two classifiers
ActualTypes ==
    {getType(x) : x \in ClassifiedValues} \cup {getArgumentType(x) : x \in ClassifiedValues}

\* the required types: read from a model file, or null, or undefined
RequiredTypes == {jsonType(t) : t \in ActualTypes} \cup ActualTypes \cup {NullTag, UndefinedTag}

CompatIdle ==
    /\ type1 = UndefinedTag
    /\ type2 = UndefinedTag
    /\ verdict = [done |-> FALSE, value |-> FALSE]

CompatInit ==
    /\ type1 \in ActualTypes
    /\ type2 \in RequiredTypes
    /\ verdict = [done |-> FALSE, value |-> FALSE]

\* checkCompatible(type1, type2) is called
CheckCompatible ==
    /\ ~verdict.done
    /\ verdict' = [done |-> TRUE, value |-> checkCompatible(type1, type2)]
    /\ UNCHANGED <<type1, type2>>
    /\ UNCHANGED <<tracerVars, clients, replayVars>>

----------------------------------------------------------------------------
(* check-type.js: the model tree.                                          *)
(* The values of the replay are records [t, v, synth]: synth is the path   *)
(* of the node a synthesized proxy stands for, <<>> for a value of the     *)
(* library.  A node of the model tree is its accumulated path (ap); the    *)
(* tree is a function from these to [type, order, pos, processed, empty,   *)
(* obj, made], pos being the place in the children array of the parent and *)
(* made the number of times a proxy get trap or a synthesized function has *)
(* synthesized the value of the node.                                      *)

RVal(t, v) == [t |-> t, v |-> v, synth |-> <<>>]

Undefined == RVal("undefined", "")

Synthesized(t, node) == [t |-> t, v |-> "", synth |-> node]

\* the order of a node that was given none
NoOrder == 0 - 1

\* the value undefined where findNextNode returns a node
NoNode == <<>>

\* let newItem = {p: path[i], ap: accumulatedPath, children: [], parent:
\* current}, with type and order when path[i] is the last component
newItem(tree, accumulatedPath, isLast, type, idx) ==
    accumulatedPath :>
        [type |-> IF isLast THEN type ELSE UndefinedTag,
         order |-> IF isLast THEN idx ELSE NoOrder,
         pos |-> Cardinality(DOMAIN tree),
         processed |-> FALSE,
         empty |-> FALSE,
         obj |-> Undefined,
         made |-> 0]
    @@ tree

\* the inner loop of constructModelTree over the components of one path
RECURSIVE constructPath(_, _, _, _, _)
constructPath(tree, path, type, idx, i) ==
    IF i > Len(path) THEN tree
    ELSE LET accumulatedPath == SubSeq(path, 1, i) IN
         IF accumulatedPath \in DOMAIN tree
         THEN constructPath(tree, path, type, idx, i + 1)
         ELSE constructPath(newItem(tree, accumulatedPath, i = Len(path), type, idx),
                            path, type, idx, i + 1)

\* the outer loop over paths.entries(); idx counts from 0
RECURSIVE constructPaths(_, _, _)
constructPaths(tree, paths, k) ==
    IF k > Len(paths) THEN tree
    ELSE constructPaths(constructPath(tree, paths[k].path, paths[k].type, k - 1, 1),
                        paths, k + 1)

\* constructModelTree without the walk along the rho-relations
constructModelTreeUnwalked(modelContent) ==
    [threw |-> FALSE,
     root |-> constructPaths(<<>>, modelContent.paths, 1),
     rhoRelations |-> modelContent.rhoRelations]

\* [threw, root, rhoRelations]: the walk along the source or the sink of a
\* rho-relation throws Error('Incorrect path.') at a component no child has
constructModelTree(modelContent) ==
    LET root == constructPaths(<<>>, modelContent.paths, 1)
        rho == modelContent.rhoRelations
    IN  [threw |-> \E i \in 1..Len(rho) : \E j \in 1..2 :
                      rho[i][j] # <<>> /\ rho[i][j] \notin DOMAIN root,
         root |-> root,
         rhoRelations |-> rho]

RECURSIVE sortByPos(_, _)
sortByPos(tree, nodes) ==
    IF nodes = {} THEN <<>>
    ELSE LET c == CHOOSE x \in nodes : \A y \in nodes : tree[x].pos <= tree[y].pos
         IN  <<c>> \o sortByPos(tree, nodes \ {c})

\* node.children
children(tree, node) ==
    sortByPos(tree, {c \in DOMAIN tree :
                        Len(c) = Len(node) + 1 /\ SubSeq(c, 1, Len(node)) = node})

\* a.order < b.order; an order that is undefined is less than nothing
lessThan(a, b) == a # NoOrder /\ b # NoOrder /\ a < b

RECURSIVE findNextNode(_, _)
RECURSIVE findNextFrom(_, _, _, _)
\* the loop of findNextNode over currentNode.children from the i-th on
findNextFrom(tree, kids, i, minNode) ==
    IF i > Len(kids) THEN minNode
    ELSE LET c == kids[i] IN
         IF ~tree[c].processed
         THEN findNextFrom(tree, kids, i + 1,
                IF minNode = NoNode THEN c
                ELSE IF lessThan(tree[c].order, tree[minNode].order) THEN c ELSE minNode)
         ELSE LET m == findNextNode(tree, c) IN
              IF m = NoNode THEN findNextFrom(tree, kids, i + 1, minNode)
              ELSE IF minNode # NoNode /\ lessThan(tree[m].order, tree[minNode].order)
                   THEN findNextFrom(tree, kids, i + 1, m)
                   ELSE findNextFrom(tree, kids, i + 1, minNode)

findNextNode(tree, currentNode) ==
    findNextFrom(tree, children(tree, currentNode), 1, NoNode)

----------------------------------------------------------------------------
(* check-type.js: synthesis.  The operators thread a record                *)
(* rs = [tree, warnings, threw]: the model tree, the warnings logged, and  *)
(* whether an exception is on its way out.                                 *)

\* [threw, val]
synthesizeValue(node, type) ==
    IF type = StrTag("undefined") THEN [threw |-> FALSE, val |-> Undefined]
    ELSE IF type = StrTag("null") THEN [threw |-> FALSE, val |-> RVal("null", "")]
    ELSE IF type.k = "str" /\ type.s \in {"object", "array", "set", "map", "boolean",
                                          "number", "string"}
         THEN [threw |-> FALSE, val |-> Synthesized("object", node)]
    ELSE IF type = StrTag("function")
         THEN [threw |-> FALSE, val |-> Synthesized("function", node)]
    ELSE IF type.k = "lit"
         THEN IF type.primType = "number" /\ type.value = Prim("string", "Infinity")
              THEN [threw |-> FALSE, val |-> RVal("number", "Infinity")]
              ELSE IF type.primType = "number" /\ type.value = Prim("string", "NaN")
              THEN [threw |-> FALSE, val |-> RVal("number", "NaN")]
              ELSE [threw |-> FALSE, val |-> RVal(type.value.t, type.value.v)]
    ELSE [threw |-> TRUE, val |-> Undefined]

Warning(breakingPath, kind, actual, required) ==
    [breakingPath |-> breakingPath, kind |-> kind, actual |-> actual,
     required |-> required]

warn(rs, w) == [rs EXCEPT !.warnings = @ \cup {w}]

\* a synthesizeOnce that synthesizes at every read
synthesizeAgain(rs, x) ==
    LET s == synthesizeValue(x, rs.tree[x].type) IN
    IF s.threw THEN [rs EXCEPT !.threw = TRUE]
    ELSE [rs EXCEPT !.tree[x].obj = s.val, !.tree[x].processed = TRUE,
                    !.tree[x].made = @ + 1]

\* if (!x.processed) { x.obj = synthesizeValue(x); x.processed = true; }
synthesizeOnce(rs, x) ==
    IF rs.tree[x].processed THEN rs
    ELSE LET s == synthesizeValue(x, rs.tree[x].type) IN
         IF s.threw THEN [rs EXCEPT !.threw = TRUE]
         ELSE [rs EXCEPT !.tree[x].obj = s.val, !.tree[x].processed = TRUE,
                         !.tree[x].made = @ + 1]

\* the children of node with the given component, in the sequence of
\* node.children
childrenWith(tree, node, pathComp) ==
    SelectSeq(children(tree, node), LAMBDA c : c[Len(c)] = pathComp)

\* the get trap where a child is found
readChild(rs, x) ==
    [rs |-> synthesizeOnce(rs, x), ret |-> synthesizeOnce(rs, x).tree[x].obj,
     warned |-> FALSE]

\* the get trap where no child is found
additionalProp(rs, node, p) ==
    [rs |-> warn(rs, Warning(Append(node, AccessProp(p)), "additionalProp",
                             UndefinedTag, UndefinedTag)),
     ret |-> RVal("null", ""),
     warned |-> TRUE]

\* get trap of the proxy of a synthesized value; [rs, ret, warned]
proxyGet(rs, node, p) ==
    IF childrenWith(rs.tree, node, AccessProp(p)) # <<>>
    THEN readChild(rs, childrenWith(rs.tree, node, AccessProp(p))[1])
    ELSE additionalProp(rs, node, p)

\* argTypes of the synthesized function for the call callId: the types of
\* the arg children, made an array of as many elements as there are children
argTypes(tree, node, callId) ==
    LET args == SelectSeq(children(tree, node),
                   LAMBDA c : c[Len(c)].compType = "arg" /\ c[Len(c)].callId = callId)
    IN  [i \in 1..Len(args) |->
            IF \E j \in 1..Len(args) : args[j][Len(args[j])].argId = i - 1
            THEN tree[CHOOSE c \in {args[j] : j \in 1..Len(args)} :
                         c[Len(c)].argId = i - 1].type
            ELSE UndefinedTag]

\* the body of the synthesized function of node, called with arguments, from
\* the i-th child on; [rs, ret, warned]
RECURSIVE synthesizedFunction(_, _, _, _)
synthesizedFunction(rs, node, arguments, i) ==
    LET kids == children(rs.tree, node) IN
    IF rs.threw THEN [rs |-> rs, ret |-> Undefined, warned |-> FALSE]
    ELSE IF i > Len(kids)
    THEN [rs |-> warn(rs, Warning(Append(node, Call("null")), "call",
                                  UndefinedTag, UndefinedTag)),
          ret |-> RVal("number", "0"),
          warned |-> TRUE]
    ELSE LET x == kids[i] IN
         IF x[Len(x)].compType # "call"
         THEN synthesizedFunction(rs, node, arguments, i + 1)
         ELSE LET rs2 == synthesizeOnce(rs, x)
                  realArgumentTypes ==
                      [j \in 1..Len(arguments) |->
                          IF isCovariant(x) THEN getArgumentType(arguments[j])
                          ELSE getType(arguments[j])]
              IN  IF rs2.threw THEN [rs |-> rs2, ret |-> Undefined, warned |-> FALSE]
                  ELSE IF checkAllCompatible(realArgumentTypes,
                                             argTypes(rs2.tree, node, x[Len(x)].callId))
                  THEN [rs |-> rs2, ret |-> rs2.tree[x].obj, warned |-> FALSE]
                  ELSE synthesizedFunction(rs2, node, arguments, i + 1)

----------------------------------------------------------------------------
(* check-type.js: traverseTree.  The recursion of traverseTree is the      *)
(* stack rstack of frames [node, at, i]: at is "enter" before the handler  *)
(* of the node has run and "loop" in the while loop after it; i counts the *)
(* children (root) or the rho-relations (arg) gone through.                *)

Rs == [tree |-> modelTree, warnings |-> warnings, threw |-> FALSE]

Top == rstack[Len(rstack)]

parentOf(node) == SubSeq(node, 1, Len(node) - 1)

\* node.obj, node.processed, node.empty; the root has none of them
objOf(tree, node) == IF node = <<>> THEN Undefined ELSE tree[node].obj
processedOf(tree, node) == node # <<>> /\ tree[node].processed
emptyOf(tree, node) == node # <<>> /\ tree[node].empty

\* the handler of compType is about to run on the node of the top frame
Enter(compType) ==
    /\ rpc = "running"
    /\ rstack # <<>>
    /\ Top.at = "enter"
    /\ Top.node # <<>>
    /\ Top.node[Len(Top.node)].compType = compType

\* the handler is done: on to the while loop of the node
ToLoop == rstack' = [rstack EXCEPT ![Len(rstack)].at = "loop"]

\* traverseTree(node, rhoRelations) is called from the top frame
CallTraverse(node) ==
    rstack' = Append(rstack, [node |-> node, at |-> "enter", i |-> 1])

\* traverseTree returns; the script ends with the return of the first call
ReturnTraverse ==
    /\ rstack' = SubSeq(rstack, 1, Len(rstack) - 1)
    /\ rpc' = IF Len(rstack) = 1 THEN "done" ELSE rpc

\* the handler of the node of the top frame has set node.processed = true
Handled ==
    handled' = IF /\ rstack # <<>>
                  /\ Top.node # <<>>
                  /\ Top.at = "enter"
                  /\ ~modelTree[Top.node].processed
                  /\ modelTree'[Top.node].processed
               THEN Append(handled, Top.node)
               ELSE handled

\* what the library under test answers at node: what the traced library
\* answered there, or something else
ChangedAnswers ==
    {Undefined, RVal("null", ""), RVal("number", "2"), RVal("function", "")}

Answers(node) ==
    (IF node \in DOMAIN traced THEN {traced[node]} ELSE {}) \cup ChangedAnswers

isTraced(node, o) == node \in DOMAIN traced /\ traced[node] = o

\* let [modelTree, rhoRelations] = constructModelTree(model);
\* traverseTree(modelTree, rhoRelations)
main ==
    /\ rpc = "start"
    /\ LET c == constructModelTree(model) IN
       IF c.threw
       THEN /\ rpc' = "Error: Incorrect path."
            /\ UNCHANGED <<modelTree, replayRho, rstack>>
       ELSE /\ modelTree' = c.root
            /\ replayRho' = c.rhoRelations
            /\ rstack' = <<[node |-> <<>>, at |-> "enter", i |-> 1]>>
            /\ rpc' = "running"
    /\ UNCHANGED <<warnings, checked, unchanged, proxyUses, traced>>
    /\ Handled
    /\ UNCHANGED <<tracerVars, clients, compatVars>>

\* the root: traverseTree on every child, then return
traverseRoot ==
    /\ rpc = "running"
    /\ rstack # <<>>
    /\ Top.node = <<>>
    /\ Len(rstack) < MaxDepth
    /\ LET kids == children(modelTree, <<>>) IN
       IF Top.i <= Len(kids)
       THEN /\ rstack' = Append([rstack EXCEPT ![Len(rstack)].i = @ + 1],
                                [node |-> kids[Top.i], at |-> "enter", i |-> 1])
            /\ rpc' = rpc
       ELSE ReturnTraverse
    /\ UNCHANGED <<modelTree, replayRho, warnings, checked, unchanged, proxyUses, traced>>
    /\ Handled
    /\ UNCHANGED <<tracerVars, clients, compatVars>>

\* compType require: the library is loaded
traverseRequire ==
    /\ Enter("require")
    /\ LET node == Top.node IN
       IF modelTree[node].processed
       THEN UNCHANGED <<modelTree, warnings, checked, unchanged, rpc>> /\ ToLoop
       ELSE \/ \E o \in Answers(node) :
                 LET compatible == checkCompatible(getType(o), modelTree[node].type)
                 IN  /\ warnings' = IF compatible THEN warnings
                                    ELSE warnings \cup
                                         {Warning(node, "require", UndefinedTag,
                                                  UndefinedTag)}
                     /\ checked' = checked \cup {node}
                     /\ modelTree' = [modelTree EXCEPT ![node].obj = o,
                                                       ![node].processed = TRUE]
                     /\ unchanged' = (unchanged /\ isTraced(node, o))
                     /\ rpc' = rpc
                     /\ ToLoop
            \/ \* the module cannot be loaded
               /\ rpc' = "Error: Cannot find module"
               /\ unchanged' = FALSE
               /\ UNCHANGED <<modelTree, warnings, checked, rstack>>
    /\ UNCHANGED <<replayRho, proxyUses, traced>>
    /\ Handled
    /\ UNCHANGED <<tracerVars, clients, compatVars>>

\* an accessProp handler that does not set node.processed; C35 does not
\* hold of it
accessPropReadUnmarked(rs, node, o) ==
    LET covariant == isCovariant(node)
        type == IF covariant THEN getType(o) ELSE getArgumentType(o)
        required == rs.tree[node].type
        rs2 == IF covariant /\ ~checkCompatible(type, required)
               THEN warn(rs, Warning(node, "incompatibleTypes", type, required))
               ELSE rs
    IN  /\ modelTree' = [rs2.tree EXCEPT ![node].obj = o]
        /\ warnings' = rs2.warnings
        /\ checked' = IF covariant THEN checked \cup {node} ELSE checked
        /\ rpc' = rpc
        /\ ToLoop

\* the end of the accessProp handler with the value o read
accessPropRead(rs, node, o) ==
    LET covariant == isCovariant(node)
        type == IF covariant THEN getType(o) ELSE getArgumentType(o)
        required == rs.tree[node].type
        rs2 == IF covariant /\ ~checkCompatible(type, required)
               THEN warn(rs, Warning(node, "incompatibleTypes", type, required))
               ELSE rs
    IN  /\ modelTree' = [rs2.tree EXCEPT ![node].obj = o, ![node].processed = TRUE]
        /\ warnings' = rs2.warnings
        /\ checked' = IF covariant THEN checked \cup {node} ELSE checked
        /\ rpc' = rpc
        /\ ToLoop

\* the call or the property read of a synthesized value and what came of it
Used(k, synth, arguments, p, rs, r) ==
    [k |-> k, synth |-> synth, arguments |-> arguments, p |-> p, ret |-> r.ret,
     warned |-> r.warned, changed |-> r.rs.tree # rs.tree, threw |-> r.rs.threw]

\* the read the accessProp handler makes through the get trap, where the obj
\* of the parent is a synthesized value
readThrough(node) ==
    LET parentObj == objOf(modelTree, parentOf(node))
        p == node[Len(node)].propName
    IN  IF /\ ~modelTree[node].processed
           /\ ~emptyOf(modelTree, parentOf(node))
           /\ parentObj.synth # <<>>
        THEN {Used("get", parentObj.synth, <<>>, p, Rs,
                   proxyGet(Rs, parentObj.synth, p))}
        ELSE {}

\* compType accessProp
traverseAccessProp ==
    /\ Enter("accessProp")
    /\ LET node == Top.node
           p == node[Len(node)].propName
           parentObj == objOf(modelTree, parentOf(node))
       IN
       IF modelTree[node].processed
       THEN UNCHANGED <<modelTree, warnings, checked, unchanged, rpc>> /\ ToLoop
       ELSE IF emptyOf(modelTree, parentOf(node))
       THEN /\ modelTree' = [modelTree EXCEPT ![node].empty = TRUE,
                                              ![node].processed = TRUE]
            /\ UNCHANGED <<warnings, checked, unchanged, rpc>>
            /\ ToLoop
       ELSE IF parentObj = Undefined
       THEN /\ warnings' = warnings \cup
                  {Warning(node, "get property of undefined", UndefinedTag, UndefinedTag)}
            /\ modelTree' = [modelTree EXCEPT ![node].empty = TRUE,
                                              ![node].processed = TRUE]
            /\ UNCHANGED <<checked, unchanged, rpc>>
            /\ ToLoop
       ELSE IF parentObj.t = "null"
       THEN \* a property of null is read
            /\ rpc' = "TypeError"
            /\ UNCHANGED <<modelTree, warnings, checked, unchanged, rstack>>
       ELSE IF parentObj.synth # <<>>
       THEN LET r == proxyGet(Rs, parentObj.synth, p) IN
            IF r.rs.threw
            THEN /\ rpc' = "Error: Cannot synthesize the value"
                 /\ UNCHANGED <<modelTree, warnings, checked, unchanged, rstack>>
            ELSE /\ accessPropRead(r.rs, node, r.ret)
                 /\ unchanged' = unchanged
       ELSE IF parentObj.t \in Primitives
       THEN /\ accessPropRead(Rs, node, Undefined)
            /\ unchanged' = (unchanged /\ isTraced(node, Undefined))
       ELSE \/ \E o \in Answers(node) :
                 /\ accessPropRead(Rs, node, o)
                 /\ unchanged' = (unchanged /\ isTraced(node, o))
            \/ \* a getter of the library throws
               /\ rpc' = "Error of the library"
               /\ unchanged' = FALSE
               /\ UNCHANGED <<modelTree, warnings, checked, rstack>>
    /\ proxyUses' = proxyUses \cup readThrough(Top.node)
    /\ UNCHANGED <<replayRho, traced>>
    /\ Handled
    /\ UNCHANGED <<tracerVars, clients, compatVars>>

\* compType writeProp
traverseWriteProp ==
    /\ Enter("writeProp")
    /\ LET node == Top.node
           parentObj == objOf(modelTree, parentOf(node))
           s == synthesizeValue(node, modelTree[node].type)
       IN
       IF modelTree[node].processed
       THEN UNCHANGED <<modelTree, warnings, rpc>> /\ ToLoop
       ELSE IF emptyOf(modelTree, parentOf(node))
       THEN /\ modelTree' = [modelTree EXCEPT ![node].empty = TRUE,
                                              ![node].processed = TRUE]
            /\ UNCHANGED <<warnings, rpc>>
            /\ ToLoop
       ELSE IF parentObj = Undefined
       THEN /\ warnings' = warnings \cup
                  {Warning(node, "set property of undefined", UndefinedTag, UndefinedTag)}
            /\ modelTree' = [modelTree EXCEPT ![node].empty = TRUE,
                                              ![node].processed = TRUE]
            /\ rpc' = rpc
            /\ ToLoop
       ELSE IF s.threw
       THEN /\ rpc' = "Error: Cannot synthesize the value"
            /\ UNCHANGED <<modelTree, warnings, rstack>>
       ELSE IF parentObj.t = "null" \/ (parentObj.t \in Primitives /\ parentObj.synth = <<>>)
       THEN \* a property of null, or in strict mode of a primitive, is set
            /\ rpc' = "TypeError"
            /\ UNCHANGED <<modelTree, warnings, rstack>>
       ELSE /\ modelTree' = [modelTree EXCEPT ![node].processed = TRUE]
            /\ UNCHANGED <<warnings, rpc>>
            /\ ToLoop
    /\ UNCHANGED <<replayRho, checked, unchanged, proxyUses, traced>>
    /\ Handled
    /\ UNCHANGED <<tracerVars, clients, compatVars>>

\* an arg handler that synthesizes where a rho-relation names the node
rhoRelationInputSynthesized(tree, rho, node) ==
    synthesizeValue(node, tree[node].type).val

\* rhoRelationInput = rhoRelations[i][0].obj, of the last relation whose sink
\* is the node
rhoRelationInput(tree, rho, node) ==
    LET sinks == {i \in 1..Len(rho) : rho[i][2] = node}
        i == CHOOSE i \in sinks : \A j \in sinks : j <= i
    IN  objOf(tree, rho[i][1])

\* compType arg
traverseArg ==
    /\ Enter("arg")
    /\ Len(rstack) < MaxDepth
    /\ LET node == Top.node
           sinks == {i \in 1..Len(replayRho) : replayRho[i][2] = node}
           pending == {i \in sinks :
                         i >= Top.i /\ ~processedOf(modelTree, replayRho[i][1])}
           s == synthesizeValue(node, modelTree[node].type)
       IN
       IF modelTree[node].processed
       THEN UNCHANGED <<modelTree, rpc>> /\ ToLoop
       ELSE IF pending # {}
       THEN LET i == CHOOSE i \in pending : \A j \in pending : i <= j IN
            /\ rstack' = Append([rstack EXCEPT ![Len(rstack)].i = i + 1],
                                [node |-> replayRho[i][1], at |-> "enter", i |-> 1])
            /\ UNCHANGED <<modelTree, rpc>>
       ELSE IF sinks # {}
       THEN /\ modelTree' = [modelTree EXCEPT
                                ![node].obj = rhoRelationInput(modelTree, replayRho, node),
                                ![node].processed = TRUE]
            /\ rpc' = rpc
            /\ ToLoop
       ELSE IF s.threw
       THEN /\ rpc' = "Error: Cannot synthesize the value"
            /\ UNCHANGED <<modelTree, rstack>>
       ELSE /\ modelTree' = [modelTree EXCEPT ![node].obj = s.val,
                                              ![node].processed = TRUE]
            /\ rpc' = rpc
            /\ ToLoop
    /\ UNCHANGED <<replayRho, warnings, checked, unchanged, proxyUses, traced>>
    /\ Handled
    /\ UNCHANGED <<tracerVars, clients, compatVars>>

\* the arg children of the parent for the call callId, in the sequence of
\* parent.children
argChildren(tree, parent, callId) ==
    SelectSeq(children(tree, parent),
              LAMBDA c : c[Len(c)].compType = "arg" /\ c[Len(c)].callId = callId)

\* argArray[x.p.argId] = x.obj for each of them, made an array of as many
\* elements as there are arg children
argArrayOf(tree, parent, callId) ==
    LET args == argChildren(tree, parent, callId) IN
    [i \in 1..Len(args) |->
        IF \E j \in 1..Len(args) : args[j][Len(args[j])].argId = i - 1
        THEN tree[CHOOSE c \in {args[j] : j \in 1..Len(args)} :
                     c[Len(c)].argId = i - 1].obj
        ELSE Undefined]

\* what the library does, while it runs, with the synthesized values it was
\* given: nothing, or it calls one of them, or it reads a property of one
NoUse == [k |-> "none", synth |-> <<>>, arguments |-> <<>>, p |-> ""]

Uses(argArray) ==
    {NoUse}
    \cup {[k |-> "call", synth |-> argArray[i].synth, arguments |-> a, p |-> ""] :
            i \in {j \in 1..Len(argArray) :
                     argArray[j].synth # <<>> /\ argArray[j].t = "function"},
            a \in {<<>>, <<RVal("number", "1")>>, <<RVal("string", "a")>>}}
    \cup {[k |-> "get", synth |-> argArray[i].synth, arguments |-> <<>>, p |-> "f"] :
            i \in {j \in 1..Len(argArray) : argArray[j].synth # <<>>}}

\* what the traced library did with the values the client gave it in the
\* place of the synthesized ones: it is in the children of their nodes
tracedUse(tree, argArray) ==
    LET used == {i \in 1..Len(argArray) :
                    /\ argArray[i].synth # <<>>
                    /\ children(tree, argArray[i].synth) # <<>>}
    IN  IF used = {} THEN NoUse
        ELSE LET node == argArray[CHOOSE i \in used : \A j \in used : i <= j].synth
                 calls == SelectSeq(children(tree, node),
                                    LAMBDA c : c[Len(c)].compType = "call")
                 gets == SelectSeq(children(tree, node),
                                   LAMBDA c : c[Len(c)].compType = "accessProp")
             IN  IF calls # <<>>
                 THEN LET args == argChildren(tree, node, calls[1][Len(calls[1])].callId)
                      IN  [k |-> "call", synth |-> node,
                           arguments |-> [i \in 1..Len(args) |->
                               IF args[i] \in DOMAIN traced THEN traced[args[i]]
                               ELSE Undefined],
                           p |-> ""]
                 ELSE IF gets # <<>>
                 THEN [k |-> "get", synth |-> node, arguments |-> <<>>,
                       p |-> gets[1][Len(gets[1])].propName]
                 ELSE NoUse

applyUse(rs, use) ==
    IF use.k = "call" THEN synthesizedFunction(rs, use.synth, use.arguments, 1)
    ELSE IF use.k = "get" THEN proxyGet(rs, use.synth, use.p)
    ELSE [rs |-> rs, ret |-> Undefined, warned |-> FALSE]

usesOf(rs, use) ==
    IF use.k = "none" THEN {}
    ELSE {Used(use.k, use.synth, use.arguments, use.p, rs, applyUse(rs, use))}

\* the end of the try block of the call and new handlers with the value
\* returned: the type is compared whatever the variance of the node
invocationReturned(rs, node, ret) ==
    LET type == IF isCovariant(node) THEN getType(ret) ELSE getArgumentType(ret)
        required == rs.tree[node].type
        rs2 == IF ~checkCompatible(type, required)
               THEN warn(rs, Warning(node, "incompatibleReturnTypes", type, required))
               ELSE rs
    IN  /\ modelTree' = [rs2.tree EXCEPT ![node].obj = ret, ![node].processed = TRUE]
        /\ warnings' = rs2.warnings
        /\ checked' = checked \cup {node}

\* a catch block that leaves the node as it was
invocationThrewUnmarked(rs, node) ==
    /\ modelTree' = rs.tree
    /\ warnings' = rs.warnings
    /\ checked' = checked

\* the catch block of the call and new handlers
invocationThrew(rs, node) ==
    /\ modelTree' = [rs.tree EXCEPT ![node].processed = TRUE]
    /\ warnings' = rs.warnings
    /\ checked' = checked

\* the values a constructor can hand to Reflect.construct
isObject(x) == x.t \notin (Primitives \cup {"undefined", "null"})

\* compType call and compType new
traverseInvocation(kind) ==
    /\ Enter(kind)
    /\ Len(rstack) < MaxDepth
    /\ LET node == Top.node
           parent == parentOf(node)
           callId == node[Len(node)].callId
           args == argChildren(modelTree, parent, callId)
           waiting == SelectSeq(args, LAMBDA x : ~modelTree[x].processed)
           argArray == argArrayOf(modelTree, parent, callId)
           parentObj == objOf(modelTree, parent)
       IN
       IF modelTree[node].processed
       THEN UNCHANGED <<modelTree, warnings, checked, unchanged, proxyUses>> /\ ToLoop
       ELSE IF waiting # <<>>
       THEN /\ CallTraverse(waiting[1])
            /\ UNCHANGED <<modelTree, warnings, checked, unchanged, proxyUses>>
       ELSE IF parentObj.t = "function" /\ parentObj.synth = <<>>
       THEN \* a function of the library runs
            \E use \in Uses(argArray) :
              LET rs2 == applyUse(Rs, use).rs
                  sameUse == use = tracedUse(modelTree, argArray)
              IN  /\ proxyUses' = proxyUses \cup usesOf(Rs, use)
                  /\ \/ /\ rs2.threw
                        /\ invocationThrew([rs2 EXCEPT !.threw = FALSE], node)
                        /\ unchanged' = (unchanged /\ sameUse)
                        /\ ToLoop
                     \/ /\ ~rs2.threw
                        /\ \E ret \in Answers(node) :
                             /\ kind = "new" => isObject(ret)
                             /\ invocationReturned(rs2, node, ret)
                             /\ unchanged' = (unchanged /\ sameUse /\ isTraced(node, ret))
                        /\ ToLoop
                     \/ /\ ~rs2.threw
                        /\ invocationThrew(rs2, node)
                        /\ unchanged' = FALSE
                        /\ ToLoop
       ELSE IF parentObj.synth # <<>> /\ kind = "call"
       THEN \* node.parent.obj.apply is read through the get trap
            LET r == proxyGet(Rs, parentObj.synth, "apply")
                c == synthesizedFunction(r.rs, r.ret.synth,
                                         <<Undefined, RVal("array", "")>>, 1)
                called == ~r.rs.threw /\ r.ret.t = "function" /\ r.ret.synth # <<>>
            IN  /\ IF called
                   THEN IF c.rs.threw
                        THEN invocationThrew([c.rs EXCEPT !.threw = FALSE], node)
                        ELSE invocationReturned(c.rs, node, c.ret)
                   ELSE invocationThrew([r.rs EXCEPT !.threw = FALSE], node)
                /\ proxyUses' = proxyUses
                      \cup {Used("get", parentObj.synth, <<>>, "apply", Rs, r)}
                      \cup IF called
                           THEN {Used("call", r.ret.synth,
                                      <<Undefined, RVal("array", "")>>, "", r.rs, c)}
                           ELSE {}
                /\ unchanged' = unchanged
                /\ ToLoop
       ELSE IF parentObj.synth # <<>> /\ parentObj.t = "function"
       THEN \* Reflect.construct of a synthesized function: the prototype is
            \* read through the get trap, then the body runs
            LET r == proxyGet(Rs, parentObj.synth, "prototype")
                c == synthesizedFunction(r.rs, parentObj.synth, argArray, 1)
            IN  /\ IF r.rs.threw \/ c.rs.threw
                   THEN invocationThrew([c.rs EXCEPT !.threw = FALSE], node)
                   ELSE invocationReturned(c.rs, node,
                            IF isObject(c.ret) THEN c.ret ELSE RVal("object", ""))
                /\ proxyUses' = proxyUses
                      \cup {Used("get", parentObj.synth, <<>>, "prototype", Rs, r),
                            Used("call", parentObj.synth, argArray, "", r.rs, c)}
                /\ unchanged' = unchanged
                /\ ToLoop
       ELSE \* nothing that can be called or constructed
            /\ invocationThrew(Rs, node)
            /\ proxyUses' = proxyUses
            /\ unchanged' = unchanged
            /\ ToLoop
    /\ rpc' = rpc
    /\ UNCHANGED <<replayRho, traced>>
    /\ Handled
    /\ UNCHANGED <<tracerVars, clients, compatVars>>

traverseCall == traverseInvocation("call")

traverseNew == traverseInvocation("new")

\* the while loop at the end of traverseTree
traverseNext ==
    /\ rpc = "running"
    /\ rstack # <<>>
    /\ Top.at = "loop"
    /\ Len(rstack) < MaxDepth
    /\ LET next == findNextNode(modelTree, Top.node) IN
       IF next = NoNode THEN ReturnTraverse
       ELSE CallTraverse(next) /\ rpc' = rpc
    /\ UNCHANGED <<modelTree, replayRho, warnings, checked, unchanged, proxyUses, traced>>
    /\ Handled
    /\ UNCHANGED <<tracerVars, clients, compatVars>>

----------------------------------------------------------------------------
(* The traced runs whose models are replayed: a client and a library, as   *)
(* the sequence of what the client does to the mediators and of what the   *)
(* library answers, run through the handlers of the tracer.                *)

Number2 == Val("number", "2")
UndefinedValue == Val("undefined", "")

\* the mediator of a path, where an event names one
Ref(path) == [t |-> "ref", v |-> "", native |-> FALSE, wraps |-> <<path>>]

\* the first argument of the invocation in flight, where the library returns
\* what it was given
Argument0 == [t |-> "argument", v |-> "", native |-> FALSE, wraps |-> <<>>]

Event(op, kind, on, p, val, args) ==
    [op |-> op, kind |-> kind, on |-> on, p |-> p, val |-> val, args |-> args]

requires(lib) == Event("require", "", <<>>, "", lib, <<>>)
gets(on, p, val) == Event("get", "", on, p, val, <<>>)
sets(on, p, val) == Event("set", "", on, p, val, <<>>)
invokes(kind, on, args) == Event("invoke", kind, on, "", UndefinedValue, args)
returns(val) == Event("return", "", <<>>, "", val, <<>>)

mediator(st, path) == CHOOSE m \in st.held : Head(m.wraps) = path

resolve(st, x) == IF x.t = "ref" THEN mediator(st, x.wraps[1]) ELSE x

\* the value of the library or of the client behind a value of the traced run
reveal(x) == RVal(x.t, x.v)

\* the values first observed at the nodes made between st and st2: vals[1],
\* or the argument of its index at an arg node
observed(traces, st, st2, vals) ==
    [q \in DOMAIN st2.tree \ DOMAIN st.tree |->
        LET pathComp == q[Len(q)] IN
        IF pathComp.compType = "arg" THEN reveal(vals[pathComp.argId + 1])
        ELSE reveal(vals[1])]
    @@ traces

TraceStart ==
    [st |-> [tree |-> <<>>, order |-> 0, rho |-> <<>>, held |-> {}, obs |-> <<>>,
             rerec |-> FALSE, threw |-> FALSE],
     stack |-> <<>>,
     n |-> 0,
     traced |-> <<>>]

\* f = [st, stack, n, traced]: the state of the tracer, the invocations in
\* flight with their arguments, the number of call ids drawn, the values first
\* observed at the nodes; st2 is the tracer's state after the handler has run
recorded(f, st, st2, vals) ==
    [f EXCEPT !.st = st2, !.traced = observed(@, st, st2, vals)]

traceRequire(f, st, lib, initPath) ==
    recorded(f, st, addPathAndType(wrap(st, lib, initPath), initPath, getType(lib)),
             <<lib>>)

traceGet(f, st, e) ==
    recorded(f, st, getTrap(st, mediator(st, e.on), e.p, e.val).st, <<e.val>>)

traceSet(f, st, e, newValue) ==
    recorded(f, st, setTrap(st, mediator(st, e.on), e.p, newValue), <<newValue>>)

invoked(f, st, kind, r, argArray, levels) ==
    [recorded(f, st, r.st, argArray) EXCEPT
        !.n = @ + levels,
        !.stack = IF r.st.threw THEN @
                  ELSE Append(@, [kind |-> kind, levels |-> r.levels, args |-> r.args])]

\* the invocation of mediator x, the traps of its mediators drawing callIds
traceInvokeDrawing(f, st, kind, x, argArray, callIds) ==
    invoked(f, st, kind, invokeTraps(st, kind, x.wraps, callIds, argArray),
            argArray, Len(x.wraps))

\* the same where every id drawn is a new one
traceInvoke(f, st, kind, x, argArray) ==
    traceInvokeDrawing(f, st, kind, x, argArray,
                       [i \in 1..Len(x.wraps) |-> CallIdSeq[f.n + i]])

traceReturn(f, st, frame, result) ==
    [recorded(f, st, returnTraps(st, frame.kind, frame.levels, result).st, <<result>>)
        EXCEPT !.stack = SubSeq(@, 1, Len(@) - 1)]

traceStep(f, st, e) ==
    CASE e.op = "require" -> traceRequire(f, st, e.val, <<Require(LibraryName)>>)
      [] e.op = "get" -> traceGet(f, st, e)
      [] e.op = "set" -> traceSet(f, st, e, resolve(st, e.val))
      [] e.op = "invoke" ->
            traceInvoke(f, st, e.kind, mediator(st, e.on),
                        [i \in 1..Len(e.args) |-> resolve(st, e.args[i])])
      [] e.op = "return" ->
            traceReturn(f, st, f.stack[Len(f.stack)],
                        IF e.val.t = "argument" THEN f.stack[Len(f.stack)].args[1]
                        ELSE resolve(st, e.val))
      [] OTHER -> f

\* one event of a traced run
traceEvent(f, e) == traceStep(f, [f.st EXCEPT !.threw = FALSE], e)

RECURSIVE trace(_, _, _)
trace(f, events, k) ==
    IF k > Len(events) THEN f ELSE trace(traceEvent(f, events[k]), events, k + 1)

Lib == <<Require(LibraryName)>>
LibF == Append(Lib, AccessProp("f"))

\* the library exports { f: 'a' }; the client reads lib.f
ConstantGetter == <<requires(Object), gets(Lib, "f", StringA)>>

\* the library exports { f: x => x }; the client runs lib.f(lib.f)
IdentityFunction ==
    <<requires(Object), gets(Lib, "f", Function),
      invokes("call", LibF, <<Ref(LibF)>>), returns(Argument0)>>

\* the library exports a constructor whose objects count; the client runs
\* c = new lib(); c.f(); c.f()
StatefulCounter ==
    <<requires(Function), invokes("new", Lib, <<>>), returns(Object),
      gets(Append(Lib, New("c1")), "f", Function),
      invokes("call", <<Lib[1], New("c1"), AccessProp("f")>>, <<>>), returns(Number1),
      invokes("call", <<Lib[1], New("c1"), AccessProp("f")>>, <<>>), returns(Number2)>>

\* the library exports { f: cb => { cb(1); return 1 } }; the client runs
\* lib.f(function (x) {})
Callback ==
    <<requires(Object), gets(Lib, "f", Function),
      invokes("call", LibF, <<Function>>),
      invokes("call", Append(LibF, Arg("c1", 0)), <<Number1>>), returns(UndefinedValue),
      returns(Number1)>>

\* the library exports { f: o => { o.f } }; the client runs lib.f({ f: 'a' })
OptionsObject ==
    <<requires(Object), gets(Lib, "f", Function),
      invokes("call", LibF, <<Object>>),
      gets(Append(LibF, Arg("c1", 0)), "f", StringA),
      returns(UndefinedValue)>>

\* the library exports { f: g => g ? g() : 1 }; the client runs lib.f(lib.f)
HandedBackAndCalled ==
    <<requires(Object), gets(Lib, "f", Function),
      invokes("call", LibF, <<Ref(LibF)>>),
      invokes("call", Append(LibF, Arg("c1", 0)), <<>>), returns(Number1),
      returns(Number1)>>

\* the library exports { f: () => ({ f: 'a' }) }; the client runs lib.f().f
\* and sets lib.f = 'a'
FactoryAndWrite ==
    <<requires(Object), gets(Lib, "f", Function),
      invokes("call", LibF, <<>>), returns(Object),
      gets(Append(LibF, Call("c1")), "f", StringA),
      sets(Lib, "f", StringA)>>

\* the library exports a constructor; the client runs o = new lib();
\* lib(o.constructor)
ConstructorHandedBack ==
    <<requires(Function), invokes("new", Lib, <<>>), returns(Object),
      gets(Append(Lib, New("c1")), "constructor", Function),
      invokes("call", Lib, <<Ref(<<Lib[1], New("c1"), AccessProp("constructor")>>)>>),
      returns(UndefinedValue)>>

\* the library exports { f: a => typeof a === 'function' ? a({}) : 1 }; the
\* client runs lib.f(x => lib.f(x))
CallbackArgumentHandedBack ==
    <<requires(Object), gets(Lib, "f", Function),
      invokes("call", LibF, <<Function>>),
      invokes("call", Append(LibF, Arg("c1", 0)), <<Object>>),
      invokes("call", LibF, <<Ref(<<LibF[1], LibF[2], Arg("c1", 0), Arg("c2", 0)>>)>>),
      returns(Number1), returns(Number1), returns(Number1)>>

\* the library exports { f: { f: 'a' } }; the client reads lib.f.f
NestedObject ==
    <<requires(Object), gets(Lib, "f", Object), gets(LibF, "f", StringA)>>

\* the library exports { f: cb => { cb(cb); cb.f.f } }; the client runs
\* lib.f(function g(x) { x.f }) with g.f = { f: 'a' }
CallbackGivenItself ==
    <<requires(Object), gets(Lib, "f", Function),
      invokes("call", LibF, <<Function>>),
      invokes("call", Append(LibF, Arg("c1", 0)), <<Ref(Append(LibF, Arg("c1", 0)))>>),
      gets(<<LibF[1], LibF[2], Arg("c1", 0), Arg("c2", 0)>>, "f", Object),
      returns(UndefinedValue),
      gets(<<LibF[1], LibF[2], Arg("c1", 0), AccessProp("f")>>, "f", StringA),
      returns(UndefinedValue)>>

\* the numbers JSON has no notation for, and the strings that stand for them
\* in the model file
PositiveInfinity == Val("number", "Infinity")
NegativeInfinity == Val("number", "-Infinity")
NotANumber == Val("number", "NaN")
StringInfinity == Val("string", "Infinity")
StringNaN == Val("string", "NaN")

\* the library exports { f: function () {} }; the client runs
\* lib.f(Infinity, NaN, -Infinity, 'Infinity', 'NaN', 1)
Sentinels ==
    <<requires(Object), gets(Lib, "f", Function),
      invokes("call", LibF, <<PositiveInfinity, NotANumber, NegativeInfinity,
                              StringInfinity, StringNaN, Number1>>),
      returns(UndefinedValue)>>

\* an Error object of the client
ErrorValue == Val("error", "")

\* the library exports { f: function (e) {} }; the client runs
\* lib.f(new Error('a'))
ErrorArgument ==
    <<requires(Object), gets(Lib, "f", Function),
      invokes("call", LibF, <<ErrorValue>>), returns(UndefinedValue)>>

Scenarios ==
    <<ConstantGetter, IdentityFunction, StatefulCounter, Callback, OptionsObject,
      HandedBackAndCalled, FactoryAndWrite, ConstructorHandedBack,
      CallbackArgumentHandedBack, NestedObject, CallbackGivenItself, Sentinels,
      ErrorArgument>>

----------------------------------------------------------------------------
(* The generator run file by file (javaScriptFiles.forEach) and run again. *)
(* A client file is [load, events, throwsAt]: whether it can be read and   *)
(* parsed; what its code does to the mediators, the call ids in its events *)
(* standing for the first, second, ... id drawn while it runs; and the     *)
(* event before which its code throws (0: it does not throw).              *)

\* client files of one run
MaxFiles == 2

ClientFile(load, events, throwsAt) ==
    [load |-> load, events |-> events, throwsAt |-> throwsAt]

\* the library exports { f: () => n++ }; the client runs lib.f(); lib.f()
CallsTwice ==
    <<requires(Object), gets(Lib, "f", Function),
      invokes("call", LibF, <<>>), returns(Number1),
      invokes("call", LibF, <<>>), returns(Number2)>>

\* a file that reads a property; one that calls twice; one that throws after
\* lib.f(lib.f) has returned; one whose callback throws; one that does not
\* parse; one that cannot be read
ClientFiles ==
    <<ClientFile("ok", ConstantGetter, 0),
      ClientFile("ok", CallsTwice, 0),
      ClientFile("ok", IdentityFunction, Len(IdentityFunction) + 1),
      ClientFile("ok", Callback, 5),
      ClientFile("SyntaxError", <<>>, 0),
      ClientFile("unreadable", <<>>, 0)>>

\* the id drawn in the place of the id c of an event
actualId(ids, c) == ids[CHOOSE k \in 1..Len(CallIdSeq) : CallIdSeq[k] = c]

actualPath(ids, path) ==
    [i \in 1..Len(path) |->
        IF path[i].compType \in {"arg", "call", "new"}
        THEN [path[i] EXCEPT !.callId = actualId(ids, @)]
        ELSE path[i]]

actualValue(ids, x) ==
    IF x.t = "ref" THEN Ref(actualPath(ids, x.wraps[1])) ELSE x

actualEvent(ids, e) ==
    [e EXCEPT !.on = actualPath(ids, @),
              !.val = actualValue(ids, @),
              !.args = [i \in 1..Len(e.args) |-> actualValue(ids, e.args[i])]]

\* the file forEach is at
thisFile == ClientFiles[clients.files[clients.file]]

running == pc = "tracing" /\ ~clientsHaveRun

\* forEach goes on to the next file; logs holds the file if the catch block
\* has logged its error
nextFile(logs) ==
    [clients EXCEPT !.file = @ + 1, !.at = 0, !.ids = <<>>, !.logged = @ \cup logs]

\* fs.readFileSync(f), and the parse of the content: babelParser.parse
\* before the try in plain mode, new Function(...) in the try with --mocha.
\* What is thrown before the try ends the script.
loadClient ==
    /\ running
    /\ clients.at = 0
    /\ LET caught == clients.mocha /\ thisFile.load = "SyntaxError"
           uncaught == thisFile.load # "ok" /\ ~caught
       IN  /\ clients' = IF caught THEN nextFile({clients.file})
                         ELSE IF uncaught THEN clients
                         ELSE [clients EXCEPT !.at = 1]
           /\ pc' = IF uncaught THEN "crashed" ELSE pc
    /\ UNCHANGED <<pathTree, order, rhoRelations, held, stack, argv, model, obs,
                   returned, rerecorded>>
    /\ UNCHANGED <<compatVars, replayVars>>

\* the handlers as the traced runs thread them
Run == [st |-> St, stack |-> stack, n |-> 0, traced |-> <<>>]

\* an event of the file has run through the handlers and left f, having
\* drawn callIds; a TypeError of a handler is thrown into the code of the
\* file and from there into the catch block
ranTo(f, callIds) ==
    /\ Store(f.st)
    /\ stack' = IF f.st.threw THEN <<>> ELSE f.stack
    /\ clients' = IF f.st.threw THEN nextFile({clients.file})
                  ELSE [clients EXCEPT !.at = @ + 1, !.ids = @ \o callIds]

\* the invocations whose target returns with the event
returning(e) ==
    IF e.op = "return"
    THEN LET frame == stack[Len(stack)] IN
         {inv \in Invocations(frame.kind, frame.levels) :
             Append(inv.parent, Arg(inv.callId, 0)) \in DOMAIN pathTree}
    ELSE {}

\* compiledFunc.call(undefined, mockedRequire) in plain mode, the call of
\* new Function(...) with --mocha: the code of the file does its next event
clientStep ==
    /\ running
    /\ clients.at \in 1..Len(thisFile.events)
    /\ clients.at # thisFile.throwsAt
    /\ LET e == actualEvent(clients.ids, thisFile.events[clients.at]) IN
       /\ IF e.op = "invoke"
          THEN \E callIds \in [1..Len(mediator(St, e.on).wraps) -> makeRandomString] :
                  ranTo(traceInvokeDrawing(Run, St, e.kind, mediator(St, e.on),
                            [i \in 1..Len(e.args) |-> resolve(St, e.args[i])],
                            callIds),
                        callIds)
          ELSE ranTo(traceStep(Run, St, e), <<>>)
       /\ returned' = returned \cup returning(e)
    /\ UNCHANGED <<pc, argv, model>>
    /\ UNCHANGED <<compatVars, replayVars>>

\* the code of the file throws: catch (e) { logger.info(...) }
clientThrows ==
    /\ running
    /\ clients.at >= 1
    /\ clients.at = thisFile.throwsAt
    /\ clients' = nextFile({clients.file})
    /\ stack' = <<>>
    /\ UNCHANGED <<pathTree, order, rhoRelations, held, pc, argv, model, obs,
                   returned, rerecorded>>
    /\ UNCHANGED <<compatVars, replayVars>>

\* the code of the file returns
clientEnds ==
    /\ running
    /\ clients.at > Len(thisFile.events)
    /\ clients.at # thisFile.throwsAt
    /\ clients' = nextFile({})
    /\ UNCHANGED <<pathTree, order, rhoRelations, held, stack, pc, argv, model, obs,
                   returned, rerecorded>>
    /\ UNCHANGED <<compatVars, replayVars>>

\* the generator script that has written a model is started again on the
\* same client files; the model of the first run is kept for comparison
retrace ==
    /\ pc = "written"
    /\ clients.run = 1
    /\ clients' = [clients EXCEPT !.run = 2, !.file = 1, !.at = 0, !.ids = <<>>,
                                  !.logged = {}, !.previous = model]
    /\ pathTree' = <<>>
    /\ order' = 0
    /\ rhoRelations' = <<>>
    /\ held' = {}
    /\ stack' = <<>>
    /\ pc' = "tracing"
    /\ argv' = [script |-> "", compress |-> FALSE]
    /\ model' = NoModel
    /\ obs' = <<>>
    /\ returned' = {}
    /\ rerecorded' = FALSE
    /\ UNCHANGED <<compatVars, replayVars>>

----------------------------------------------------------------------------
(* The specifications. *)

Next ==
    \/ mockedRequire
    \/ Get
    \/ Set
    \/ Apply
    \/ Construct
    \/ Return
    \/ Throw
    \/ generateModelSecond
    \/ generateModelFirstCompress
    \/ generateModelFirst

ReplayIdle ==
    /\ modelTree = <<>>
    /\ replayRho = <<>>
    /\ warnings = {}
    /\ checked = {}
    /\ rstack = <<>>
    /\ rpc = "idle"
    /\ unchanged = TRUE
    /\ handled = <<>>
    /\ proxyUses = {}
    /\ traced = <<>>

Init == TracerInit /\ clients = NoClients /\ CompatIdle /\ ReplayIdle

\* the tracer, used by any client on any library within the bounds
Spec == Init /\ [][Next]_vars

TracerIdle ==
    /\ pathTree = <<>>
    /\ order = 0
    /\ rhoRelations = <<>>
    /\ held = {}
    /\ stack = <<>>
    /\ pc = "idle"
    /\ argv = [script |-> "", compress |-> FALSE]
    /\ model = NoModel
    /\ obs = <<>>
    /\ returned = {}
    /\ rerecorded = FALSE

InitCompat == TracerIdle /\ clients = NoClients /\ CompatInit /\ ReplayIdle

NextCompat == CheckCompatible

\* checkCompatible on every pair of an actual and a required type
SpecCompat == InitCompat /\ [][NextCompat]_vars

\* the first generator script has traced one of the scenarios without
\* compression and written the model; check-type.js is started on it
tracedRun(f) ==
    /\ pathTree = f.st.tree
    /\ order = f.st.order
    /\ rhoRelations = f.st.rho
    /\ held = f.st.held
    /\ obs = f.st.obs
    /\ rerecorded = f.st.rerec
    /\ model = writeModel(f.st.tree, f.st.rho)
    /\ traced = f.traced

InitReplay ==
    /\ \E k \in 1..Len(Scenarios) : tracedRun(trace(TraceStart, Scenarios[k], 1))
    /\ stack = <<>>
    /\ pc = "written"
    /\ argv = [script |-> "first", compress |-> FALSE]
    /\ returned = {}
    /\ clients = NoClients
    /\ CompatIdle
    /\ modelTree = <<>>
    /\ replayRho = <<>>
    /\ warnings = {}
    /\ checked = {}
    /\ rstack = <<>>
    /\ rpc = "start"
    /\ unchanged = TRUE
    /\ handled = <<>>
    /\ proxyUses = {}

NextReplay ==
    \/ main
    \/ traverseRoot
    \/ traverseRequire
    \/ traverseAccessProp
    \/ traverseWriteProp
    \/ traverseArg
    \/ traverseCall
    \/ traverseNew
    \/ traverseNext

\* the replay of the model of a traced run against a library that answers as
\* the traced one or otherwise
SpecReplay == InitReplay /\ [][NextReplay]_vars

InitRuns ==
    /\ TracerInit
    /\ \E mocha \in BOOLEAN :
         \E files \in UNION {[1..n -> 1..Len(ClientFiles)] : n \in 1..MaxFiles} :
            clients = [NoClients EXCEPT !.mocha = mocha, !.files = files, !.at = 0]
    /\ CompatIdle
    /\ ReplayIdle

NextRuns ==
    \/ loadClient
    \/ clientStep
    \/ clientThrows
    \/ clientEnds
    \/ generateModelSecond
    \/ generateModelFirstCompress
    \/ generateModelFirst
    \/ retrace

\* a generator script run on client files in plain mode or with --mocha, and
\* run a second time where it has written a model
SpecRuns == InitRuns /\ [][NextRuns]_vars

----------------------------------------------------------------------------
(* Properties of the compatibility relation, checked under SpecCompat.     *)

\* C2: checkCompatible(actual, required) returns true exactly when required
\* is null, or required is 'object' and actual is one of 'object',
\* 'function', 'map', 'set', or the two tags are structurally equal (the
\* same string tag, or literal tags with equal primType and value).
C2_CompatibleExactly ==
    verdict.done =>
        ( verdict.value <=>
            \/ type2 = NullTag
            \/ /\ type2 = StrTag("object")
               /\ type1 \in {StrTag("object"), StrTag("function"), StrTag("map"),
                             StrTag("set")}
            \/ type1 = type2 )

----------------------------------------------------------------------------
(* Properties of the tracer, checked under Spec.                           *)

ObservableValues == {Number1, StringA, Null, Object, Function}

\* the types the handlers can hand to addPathAndType
RecordableTypes ==
    {getType(x) : x \in ObservableValues} \cup {getArgumentType(x) : x \in ObservableValues}

\* C1: a primitive observed at a covariant path is recorded as a literal
\* { primType, value }, and at a contravariant path as the plain tag: every
\* node with a literal type is at a covariant path and every node with the
\* plain tag of a primitive is at a contravariant path.
C1_LiteralIffCovariant ==
    \A path \in DOMAIN pathTree :
        LET type == pathTree[path].type IN
        /\ type.k = "lit" => isCovariant(path)
        /\ (type.k = "str" /\ type.s \in Primitives) => ~isCovariant(path)

\* C5: addPathAndType applied to a path that is in the tree, with the type
\* the node has or with any other, leaves the tree, every node's type and
\* order, and the order counter as they are.
C5_ExistingPathUnchanged ==
    \A path \in DOMAIN pathTree : \A type \in RecordableTypes :
        LET st2 == addPathAndType(St, path, type) IN
        /\ st2.tree = pathTree
        /\ st2.order = order
        /\ ~st2.threw

\* a handler has recorded a path again with a type other than its first, and
\* the tree holds more than one node
C5_Witness ==
    /\ rerecorded
    /\ Cardinality(DOMAIN pathTree) >= 2

\* C6: however the tracer was used, the N nodes of the tree carry the orders
\* 0..N-1, each once, the counter stands at N, and the paths listed by
\* ascending order are the paths in the sequence of their first observation.
C6_OrdersAreObservationSequence ==
    LET N == Cardinality(DOMAIN pathTree)
        sorted == sortByOrder(pathTreeToList(pathTree))
    IN  /\ order = N
        /\ {pathTree[path].order : path \in DOMAIN pathTree} = 0..(N - 1)
        /\ \A p1, p2 \in DOMAIN pathTree :
             pathTree[p1].order = pathTree[p2].order => p1 = p2
        /\ Len(obs) = N
        /\ \A i \in 1..N : sorted[i].path = obs[i] /\ sorted[i].order = i - 1

\* three nodes have been created, and a path was recorded a second time
\* between creations
C6_Witness ==
    /\ order >= 3
    /\ rerecorded
    /\ stack = <<>>

\* C7: the source and the sink of every pair in rhoRelations are paths of
\* nodes of the tree.
C7_RhoEndpointsInTree ==
    \A i \in 1..Len(rhoRelations) :
        /\ rhoRelations[i][1] \in DOMAIN pathTree
        /\ rhoRelations[i][2] \in DOMAIN pathTree

----------------------------------------------------------------------------
(* Properties of the emitted model, checked under Spec.                    *)

\* the generator script has ended
Ended == pc \in {"crashed", "written"}

ModelPaths == {model.paths[i].path : i \in 1..Len(model.paths)}

\* C8: with compression enabled the generator emits a model, and no endpoint
\* of a rho-relation has been removed from it: the source and the sink of
\* every pair of rhoRelations are among the paths of the emitted model.
C8_CompressionKeepsRhoEndpoints ==
    (Ended /\ argv.compress) =>
        /\ model.written
        /\ \A i \in 1..Len(model.rhoRelations) :
             /\ model.rhoRelations[i][1] \in ModelPaths
             /\ model.rhoRelations[i][2] \in ModelPaths

\* path is, or is a prefix of, an endpoint of a rho-relation
touchesRho(path) ==
    \E i \in 1..Len(rhoRelations) : \E j \in 1..2 :
        /\ Len(rhoRelations[i][j]) >= Len(path)
        /\ SubSeq(rhoRelations[i][j], 1, Len(path)) = path

childless(path) ==
    ~\E q \in DOMAIN pathTree : Len(q) > Len(path) /\ SubSeq(q, 1, Len(path)) = path

\* C9: the compression pass runs to its end on the traced tree, and in the
\* tree it leaves two childless call children of one node that have the same
\* type and touch no rho-relation have been collapsed to one.
C9_CallSiblingsCollapsed ==
    (Ended /\ argv.compress) =>
        /\ pc = "written"
        /\ \A p1, p2 \in DOMAIN pathTree :
             ( /\ p1 # p2
               /\ Len(p1) = Len(p2)
               /\ SubSeq(p1, 1, Len(p1) - 1) = SubSeq(p2, 1, Len(p2) - 1)
               /\ p1[Len(p1)].compType = "call" /\ p2[Len(p2)].compType = "call"
               /\ pathTree[p1].type = pathTree[p2].type
               /\ childless(p1) /\ childless(p2) )
             => (touchesRho(p1) \/ touchesRho(p2))

\* C10: the generator emits a model, with compression off or on, and in it a
\* node arg(callId, argId) has a sibling call(callId) or new(callId) exactly
\* when that invocation took place and its target returned.
C10_ArgHasCallIffReturned ==
    Ended =>
        /\ model.written
        /\ \A path \in ModelPaths :
             LET pathComp == path[Len(path)]
                 parent == SubSeq(path, 1, Len(path) - 1)
             IN  pathComp.compType = "arg" =>
                   ( (\E kind \in {"call", "new"} :
                        Append(parent, [compType |-> kind, callId |-> pathComp.callId])
                            \in ModelPaths)
                     <=> (\E inv \in returned :
                            inv.parent = parent /\ inv.callId = pathComp.callId) )

----------------------------------------------------------------------------
(* Properties of the replay, under SpecReplay. *)

\* C3: during replay a handler compares a type, and warns with the actual and
\* the required type, only at nodes whose path is covariant; at a node whose
\* path holds an odd number of arg and writeProp components, call and new
\* nodes included, no type is compared and no such warning is logged.
C3_ChecksOnlyAtCovariantNodes ==
    /\ \A node \in checked : isCovariant(node)
    /\ \A w \in warnings :
         w.kind \in {"incompatibleTypes", "incompatibleReturnTypes"}
            => isCovariant(w.breakingPath)

\* C4: the replay of a model against the library that produced it, answering
\* as it did in the traced run, logs no warning, neither from the handlers
\* nor from the synthesized objects and callbacks.
C4_UnchangedLibraryNoWarnings ==
    unchanged => warnings = {}

\* C11: the handlers of traverseTree process the nodes in ascending order:
\* a node processed before another one has the smaller order.
C11_ProcessedInAscendingOrder ==
    \A i, j \in 1..Len(handled) :
        i < j => modelTree[handled[i]].order < modelTree[handled[j]].order

\* C12: whatever the library yields at a require, accessProp, call or new
\* site, null and undefined included, the replay only warns: no exception
\* leaves traverseTree.
C12_IncompatibilityNeverFatal ==
    rpc \notin {"TypeError", "Error: Cannot synthesize the value"}

\* the handler of a call or new node is at its try block: the node is not
\* processed and every arg child of the invocation is
AtTry ==
    /\ Enter("call") \/ Enter("new")
    /\ ~modelTree[Top.node].processed
    /\ \A x \in DOMAIN modelTree :
         /\ parentOf(x) = parentOf(Top.node)
         /\ x[Len(x)].compType = "arg"
         /\ x[Len(x)].callId = Top.node[Len(Top.node)].callId
         => modelTree[x].processed

\* the nodes whose handler ended in its catch block: call and new nodes the
\* handlers processed without comparing a type
caught ==
    {i \in 1..Len(handled) :
        /\ handled[i][Len(handled[i])].compType \in {"call", "new"}
        /\ handled[i] \notin checked}

\* C13: when the library throws in the try block of a call or new handler,
\* no exception leaves traverseTree, the node ends with processed = true and
\* traverseTree goes on with the while loop of the node.
C13_LibraryExceptionSwallowed ==
    [][AtTry /\ Top.node \notin checked'
          => /\ rpc' = "running"
             /\ modelTree'[Top.node].processed
             /\ rstack' = [rstack EXCEPT ![Len(rstack)].at = "loop"]]_vars

\* a handler has processed a node after the catch block of another one
C13_Witness ==
    \E i \in caught : i < Len(handled)

\* the endpoint of a rho-relation of the model that is on no path of it
unresolved(endpoint) ==
    /\ endpoint # <<>>
    /\ ~\E k \in 1..Len(model.paths) :
           /\ Len(endpoint) <= Len(model.paths[k].path)
           /\ SubSeq(model.paths[k].path, 1, Len(endpoint)) = endpoint

corrupted ==
    \E i \in 1..Len(model.rhoRelations) : \E j \in 1..2 :
        unresolved(model.rhoRelations[i][j])

\* C14: with a rho-relation of the model one of whose endpoints is no node of
\* the tree, constructModelTree throws and the replay does not start: no
\* module is loaded, no function is invoked, no node is processed.
C14_CorruptedModelIsFatal ==
    corrupted /\ rpc # "start"
        => /\ rpc = "Error: Incorrect path."
           /\ modelTree = <<>>
           /\ rstack = <<>>
           /\ handled = <<>>
           /\ checked = {}
           /\ warnings = {}

C14_Witness ==
    corrupted /\ rpc = "Error: Incorrect path."

\* the rho-relations whose sink is the node
sourcesOf(node) ==
    {i \in 1..Len(replayRho) : replayRho[i][2] = node}

\* the sinks the arg handler has processed
processedSinks ==
    {i \in 1..Len(handled) : sourcesOf(handled[i]) # {}}

callbackCalls == {u \in proxyUses : u.k = "call" /\ ~u.threw}

proxyReads == {u \in proxyUses : u.k = "get" /\ ~u.threw}

callChildrenOf(node) ==
    {x \in DOMAIN modelTree : parentOf(x) = node /\ x[Len(x)].compType = "call"}

\* the recorded call child x takes the arguments: it has as many arg children
\* and the type of each is compatible with the argument at its position
takes(x, arguments) ==
    LET types == argTypes(modelTree, parentOf(x), x[Len(x)].callId)
    IN  /\ Len(types) = Len(arguments)
        /\ \A j \in 1..Len(arguments) :
             checkCompatible(IF isCovariant(x) THEN getArgumentType(arguments[j])
                             ELSE getType(arguments[j]),
                             types[j])

\* C16: a call of a synthesized function returns the value of a types
\* call child only if the types of all the types arg children of that
\* child are compatible with the arguments, position by position; with any
\* other arguments, a type that does not match or fewer or more arguments
\* than types, it warns and returns 0.
C16_CallbackMatchesSignature ==
    \A u \in callbackCalls :
        /\ ~u.warned =>
              \E x \in callChildrenOf(u.synth) :
                  takes(x, u.arguments) /\ u.ret = modelTree[x].obj
        /\ (~\E x \in callChildrenOf(u.synth) : takes(x, u.arguments)) =>
              u.warned /\ u.ret = RVal("number", "0")

\* C17: a read of property q of a synthesized value returns the obj of the
\* accessProp(q) child of its node, which is synthesized at most once; where
\* there is no such child the read warns, returns null and changes no node.
C17_ProxyReadReturnsChild ==
    /\ \A u \in proxyReads :
         LET child == Append(u.synth, AccessProp(u.p)) IN
         IF child \in DOMAIN modelTree
         THEN /\ u.ret = modelTree[child].obj
              /\ modelTree[child].processed
              /\ ~u.warned
         ELSE /\ u.warned
              /\ u.ret = RVal("null", "")
              /\ ~u.changed
              /\ Warning(child, "additionalProp", UndefinedTag, UndefinedTag)
                    \in warnings
    /\ \A node \in DOMAIN modelTree : modelTree[node].made <= 1

\* a property with a child has been read after its value was synthesized
C17_Witness ==
    \E u \in proxyReads :
        /\ Append(u.synth, AccessProp(u.p)) \in DOMAIN modelTree
        /\ ~u.changed
        /\ modelTree[Append(u.synth, AccessProp(u.p))].made = 1

----------------------------------------------------------------------------
(* Properties of the traps of the tracer, under Spec. *)

\* one pair (path of the argument, path of the arg node) for each of the
\* arguments from i on (0-based) that carries a path
RECURSIVE pairsOfArguments(_, _, _, _)
pairsOfArguments(path, callId, argArray, i) ==
    IF i >= Len(argArray) THEN <<>>
    ELSE (IF PathOf(argArray[i + 1]) # <<>>
          THEN <<<<PathOf(argArray[i + 1]), Append(path, Arg(callId, i))>>>>
          ELSE <<>>)
         \o pairsOfArguments(path, callId, argArray, i + 1)

\* the pairs for the traps of all the mediators of the function invoked: the
\* apply trap of an inner mediator gets the arguments the outer one has
\* wrapped, the construct trap gets the arguments of the outer one
RECURSIVE pairsOfInvocation(_, _, _, _)
pairsOfInvocation(kind, wraps, callIds, argArray) ==
    IF wraps = <<>> THEN <<>>
    ELSE pairsOfArguments(Head(wraps), Head(callIds), argArray, 0)
         \o pairsOfInvocation(kind, Tail(wraps), Tail(callIds),
               IF kind = "new" THEN argArray
               ELSE [i \in 1..Len(argArray) |->
                       IF TypeOf(argArray[i]) \in {"object", "function"}
                          /\ argArray[i].t # "null"
                       THEN getProxy(argArray[i],
                                     Append(Head(wraps), Arg(Head(callIds), i - 1)))
                       ELSE argArray[i]])

\* the step is the invocation of x with argArray, the traps drawing callIds,
\* that has reached the target
invocationOf(kind, x, callIds, argArray) ==
    LET r == invokeTraps(St, kind, x.wraps, callIds, argArray) IN
    /\ ~r.st.threw
    /\ stack' = Append(stack, [kind |-> kind, levels |-> r.levels, args |-> r.args])
    /\ pathTree' = r.st.tree
    /\ order' = r.st.order
    /\ rhoRelations' = r.st.rho
    /\ held' = r.st.held

\* C18: rhoRelations changes only in the apply and construct traps and only
\* by appending; an invocation that reaches its target appends one pair for
\* each argument that carries a path, of that path and of the path of the
\* arg node, and nothing else.
C18_RhoOnePairPerTracedArgument ==
    [][/\ Len(rhoRelations') >= Len(rhoRelations)
       /\ SubSeq(rhoRelations', 1, Len(rhoRelations)) = rhoRelations
       /\ rhoRelations' # rhoRelations =>
             /\ pc = "tracing"
             /\ \E kind \in {"call", "new"}, x \in held, argArray \in ArgArrays :
                  \E callIds \in [1..Len(x.wraps) -> makeRandomString] :
                     LET r == invokeTraps(St, kind, x.wraps, callIds, argArray) IN
                     /\ pathTree' = r.st.tree
                     /\ rhoRelations' = r.st.rho
                     /\ held' = r.st.held
       /\ Len(stack') > Len(stack) =>
             \A x \in held, argArray \in ArgArrays :
                \A callIds \in [1..Len(x.wraps) -> makeRandomString] :
                   invocationOf(stack'[Len(stack')].kind, x, callIds, argArray)
                      => rhoRelations' = rhoRelations
                           \o pairsOfInvocation(stack'[Len(stack')].kind, x.wraps,
                                                callIds, argArray)
      ]_vars

\* C19: no mediator is made around a mediator: every value in use carries
\* at most one path, so that one read on it records one path.
C19_NoMediatorAroundMediator ==
    \A x \in held : Len(x.wraps) <= 1

\* the reads of the get trap that record nothing: of a Symbol key, of the
\* reserved name, of a property that holds a host-native function
unrecordedReads(x) ==
    {[p |-> SymbolKey, raw |-> raw] : raw \in {Function, StringA, NativeFunction}}
    \cup {[p |-> PathKey, raw |-> StringA]}
    \cup {[p |-> p, raw |-> NativeFunction] : p \in PropNames}

\* C20: a get on a mediator with a Symbol key, with the reserved name
\* '@@__PATH__@@' or of a property that holds a host-native function leaves
\* the path tree, the order counter and rhoRelations as they are; the keys
\* are in no path of the tree, and the read of the reserved name returns the
\* path of the mediator.
C20_UnrecordedReads ==
    /\ \A x \in held : \A read \in unrecordedReads(x) :
         LET r == getTrap(St, x, read.p, read.raw) IN
         /\ r.st.tree = pathTree
         /\ r.st.order = order
         /\ r.st.rho = rhoRelations
         /\ ~r.st.threw
         /\ read.p = PathKey => r.ret = PathValue(Head(x.wraps))
    /\ \A path \in DOMAIN pathTree : \A i \in 1..Len(path) :
         path[i].compType = "accessProp" => path[i].propName \notin {SymbolKey, PathKey}

\* a mediator around a mediator is in use, with nodes recorded and a
\* rho-relation
C20_Witness ==
    /\ \E x \in held : Len(x.wraps) = 2
    /\ order >= 2
    /\ rhoRelations # <<>>

----------------------------------------------------------------------------
(* Properties of findNextNode and of the accessProp handler, under         *)
(* SpecReplay.                                                             *)

\* the nodes below node that are not processed
unprocessedBelow(node) ==
    {x \in DOMAIN modelTree :
        /\ Len(x) > Len(node)
        /\ SubSeq(x, 1, Len(node)) = node
        /\ ~modelTree[x].processed}

\* C26: where the while loop of traverseTree calls findNextNode on its node,
\* the call returns the node of the lowest order among the unprocessed nodes
\* below it, a grandchild below a processed child included, and nothing only
\* if every node below it is processed.
C26_FindNextNodeLowestUnprocessed ==
    (rpc = "running" /\ rstack # <<>> /\ Top.at = "loop") =>
        LET next == findNextNode(modelTree, Top.node)
            below == unprocessedBelow(Top.node)
        IN  IF below = {} THEN next = NoNode
            ELSE /\ next \in below
                 /\ \A x \in below :
                      ~lessThan(modelTree[x].order, modelTree[next].order)

\* C27: an accessProp node its handler has processed, whose parent is flagged
\* empty or holds undefined, is flagged empty and a warning with its path as
\* breakingPath has been logged, in the one case as in the other.
C27_EmptySubtreeWarns ==
    \A i \in 1..Len(handled) :
        LET node == handled[i] IN
        ( /\ node[Len(node)].compType = "accessProp"
          /\ \/ emptyOf(modelTree, parentOf(node))
             \/ objOf(modelTree, parentOf(node)) = Undefined )
        => /\ modelTree[node].empty
           /\ \E w \in warnings : w.breakingPath = node

----------------------------------------------------------------------------
(* Properties of the model file read back, under SpecReplay.               *)

\* constructModelTree has run
rebuilt == rpc \notin {"start", "idle"}

\* C23: the tree constructModelTree builds from the model file written has
\* the paths of the path tree that was written, with the type and the order
\* the tracer gave each path, and the rho-relations of the tracer resolved to
\* nodes.
C23_ModelRoundTrip ==
    rebuilt =>
        /\ rpc # "Error: Incorrect path."
        /\ DOMAIN modelTree = DOMAIN pathTree
        /\ \A path \in DOMAIN pathTree :
             /\ modelTree[path].type = pathTree[path].type
             /\ modelTree[path].order = pathTree[path].order
        /\ replayRho = rhoRelations

\* the arg nodes for which the arg handler has synthesized a value
synthesizedArgs ==
    {i \in 1..Len(handled) :
        /\ handled[i][Len(handled[i])].compType = "arg"
        /\ sourcesOf(handled[i]) = {}}

\* C24: a literal tag of the number Infinity or NaN is written to the model
\* file with the string 'Infinity' or 'NaN' as its value, and the value the
\* replay synthesizes from a literal tag is the value the tracer recorded:
\* the number Infinity or NaN again, any other number itself, a string
\* 'Infinity' or 'NaN' that string.
C24_LiteralsSurvivePersistence ==
    /\ \A k \in 1..Len(model.paths) :
         LET type == pathTree[model.paths[k].path].type IN
         (type.k = "lit" /\ type.primType = "number"
            /\ type.value.v \in {"Infinity", "NaN"})
         => model.paths[k].type.value = Prim("string", type.value.v)
    /\ \A i \in synthesizedArgs :
         LET type == pathTree[handled[i]].type IN
         type.k = "lit" =>
            modelTree[handled[i]].obj = RVal(type.value.t, type.value.v)

----------------------------------------------------------------------------
(* Properties of the apply and construct traps, under Spec.                *)

\* C21: every execution of the apply or construct trap draws a callId no
\* other invocation of the run has drawn: the ids of an invocation that
\* reaches its target are in no path of the tree and in no invocation in
\* flight, and differ from one mediator of the invoked function to the other.
C21_FreshCallIdPerInvocation ==
    [][Len(stack') > Len(stack) =>
          LET levels == stack'[Len(stack')].levels IN
          /\ \A j \in 1..Len(levels) : levels[j].callId \notin UsedCallIds
          /\ \A j, k \in 1..Len(levels) :
                j # k => levels[j].callId # levels[k].callId]_vars

\* the level of an invocation in flight whose target is the function of the
\* library itself
innermost(frame) == frame.levels[Len(frame.levels)]

\* C28: where the target of a traced call returns a value that carries a
\* path, an object or a function, the apply trap returns that value and no
\* mediator comes into use; a value without a path is returned in a mediator
\* of the call path if it is an object or a function, and as it is otherwise.
C28_TracedResultReturnedUnchanged ==
    \A k \in 1..Len(stack) : stack[k].kind = "call" =>
        \A result \in ResultValues \cup held :
            LET l == innermost(stack[k])
                newPath == Append(l.path, Call(l.callId))
                r == applyReturn(St, l.path, l.callId, result)
            IN  ~r.st.threw =>
                  IF PathOf(result) # <<>>
                  THEN r.ret = result /\ r.st.held = held
                  ELSE r.ret = IF TypeOf(result) \in {"object", "function"}
                                  /\ result.t # "null"
                               THEN getProxy(result, newPath) ELSE result

\* C29: the target of a traced construction is given, for every argument
\* that is an object or a function, a mediator with the path arg(callId, i)
\* below the path of the constructor.
C29_ConstructorReceivesMediators ==
    \A k \in 1..Len(stack) : stack[k].kind = "new" =>
        \A i \in 1..Len(stack[k].args) :
            LET a == stack[k].args[i]
                l == innermost(stack[k])
            IN  (TypeOf(a) \in {"object", "function"} /\ a.t # "null") =>
                   PathOf(a) = Append(l.path, Arg(l.callId, i - 1))

\* C30: on the same arguments the argument loop of the construct trap leaves
\* the rhoRelations the loop of the apply trap leaves: one pair more for
\* every argument that carries a path, object or function.
C30_ConstructRhoAsApply ==
    \A x \in held : x.t = "function" =>
        \A argArray \in ArgArrays : \A callId \in makeRandomString :
            LET c == constructArgs(St, Head(x.wraps), callId, argArray, 0)
                a == applyArgs(St, Head(x.wraps), callId, argArray, 0).st
            IN  ~c.threw =>
                  /\ c.rho = a.rho
                  /\ c.rho = rhoRelations
                               \o pairsOfArguments(Head(x.wraps), callId, argArray, 0)

----------------------------------------------------------------------------
(* Properties of whole runs of the generator, under SpecRuns.              *)

\* the set of the paths of a model file with their types
pathSet(m) ==
    {[path |-> m.paths[k].path, type |-> m.paths[k].type] : k \in 1..Len(m.paths)}

callIdsOf(m) ==
    UNION {{e.path[i].callId :
              i \in {j \in 1..Len(e.path) : e.path[j].compType \in {"arg", "call", "new"}}} :
           e \in pathSet(m)}

renamed(sigma, path) ==
    [i \in 1..Len(path) |->
        IF path[i].compType \in {"arg", "call", "new"}
        THEN [path[i] EXCEPT !.callId = sigma[@]]
        ELSE path[i]]

\* a bijection of the callIds of m1 to those of m2 takes the paths of m1,
\* with their types, to those of m2
sameUpToCallIds(m1, m2) ==
    \E sigma \in [callIdsOf(m1) -> callIdsOf(m2)] :
        /\ \A c, d \in callIdsOf(m1) : sigma[c] = sigma[d] => c = d
        /\ {sigma[c] : c \in callIdsOf(m1)} = callIdsOf(m2)
        /\ {[path |-> renamed(sigma, e.path), type |-> e.type] : e \in pathSet(m1)}
              = pathSet(m2)

\* C22: the models of two runs of the generator on the same client files,
\* without compression and with no rho-relation recorded, hold the same
\* paths with the same types up to a bijective renaming of the callIds.
C22_RetraceSameUpToCallIds ==
    ( /\ clients.run = 2
      /\ pc = "written"
      /\ model.rhoRelations = <<>>
      /\ clients.previous.rhoRelations = <<>> )
    => sameUpToCallIds(clients.previous, model)

\* loading the file or its code threw
failed(file) == file.load # "ok" \/ file.throwsAt # 0

\* C25: no client file ends the run of the generator: the error of a file
\* whose loading or whose code threw has been logged when forEach is at a
\* later file, the script crashes at no file, and where it has ended every
\* file was run and the model written holds every path and every
\* rho-relation recorded.
C25_ClientErrorsDoNotAbort ==
    /\ pc = "crashed" => clientsHaveRun
    /\ \A k \in 1..Len(clients.files) :
         (k < clients.file /\ failed(ClientFiles[clients.files[k]]))
            => k \in clients.logged
    /\ Ended =>
         /\ clientsHaveRun
         /\ model.written
         /\ {model.paths[k].path : k \in 1..Len(model.paths)}
               = {obs[k] : k \in 1..Len(obs)}
         /\ model.rhoRelations = rhoRelations

----------------------------------------------------------------------------
(* The orders of the nodes of one invocation, under Spec.                  *)

\* the nodes arg(callId, i) of the levels of an invocation are created by
\* the step, in ascending i
argsNewAscending(frame) ==
    \A j \in 1..Len(frame.levels) : \A i \in 0..(Len(frame.args) - 1) :
        LET l == frame.levels[j]
            a == Append(l.path, Arg(l.callId, i))
        IN  /\ a \in DOMAIN pathTree'
            /\ pathTree'[a].order >= order
            /\ i > 0 => pathTree'[Append(l.path, Arg(l.callId, i - 1))].order
                           < pathTree'[a].order

\* the nodes call(callId) / new(callId) of the levels of an invocation that
\* are in the tree are created by the step
callNew(frame) ==
    \A j \in 1..Len(frame.levels) :
        LET l == frame.levels[j]
            c == Append(l.path, IF frame.kind = "call" THEN Call(l.callId)
                                ELSE New(l.callId))
        IN  c \in DOMAIN pathTree' => pathTree'[c].order >= order

\* C37: of a traced invocation with id c the nodes arg(c, i) are the newest
\* of the tree when the target is invoked, in ascending i, and the node
\* call(c) / new(c) is the newest when the target has returned: the arg
\* nodes have lower orders than every path recorded while the target runs,
\* and these have lower orders than the call / new node.
C37_ArgsThenBodyThenCall ==
    [][/\ Len(stack') > Len(stack) => argsNewAscending(stack'[Len(stack')])
       /\ Len(stack') < Len(stack) => callNew(stack[Len(stack)])]_vars

----------------------------------------------------------------------------
(* Properties of the synthesizer and of the end of the replay, under       *)
(* SpecReplay.                                                             *)

\* the obj of the parent of node is a value the replayer has synthesized
belowSynthesized(node) ==
    /\ Len(node) > 1
    /\ objOf(modelTree, parentOf(node)).synth # <<>>

\* C33: a node below a synthesized value is given processed = true and an
\* obj when the library under test reads the property or calls the
\* callback, and not by the replayer: no handler of traverseTree has
\* processed a node below a synthesized value.
C33_SynthesisIsLazy ==
    \A k \in 1..Len(handled) : ~belowSynthesized(handled[k])

\* C36: when traverseTree(modelTree, rhoRelations) has returned, every node
\* of the model tree has processed = true.
C36_AllProcessedAtReturn ==
    rpc = "done" => \A node \in DOMAIN modelTree : modelTree[node].processed

\* C34: synthesizeValue returns a value for the type of every arg and
\* writeProp node of a model the tracer has written, and the replay does
\* not end with the exception of synthesizeValue.
C34_SynthesizeValueTotal ==
    /\ rpc # "Error: Cannot synthesize the value"
    /\ \A node \in DOMAIN modelTree :
         node[Len(node)].compType \in {"arg", "writeProp"} =>
            ~synthesizeValue(node, modelTree[node].type).threw

\* a call of traverseTree from the while loop: findNextNode has returned
\* the node of the new frame
selects ==
    /\ rstack # <<>>
    /\ Top.at = "loop"
    /\ Len(rstack') = Len(rstack) + 1

\* the handler of a node other than the root has run to its end
handles ==
    /\ rstack # <<>>
    /\ Top.at = "enter"
    /\ Top.node # <<>>
    /\ Len(rstack') = Len(rstack)
    /\ rstack'[Len(rstack')].at = "loop"

\* C35: traverseTree started at the root of the tree of a model comes to its
\* end: the node findNextNode returns is unprocessed, the handler of a node
\* leaves it processed, and in every run of the script there is a last step.
C35_TraverseTreeTerminates ==
    /\ [][/\ selects => ~modelTree[rstack'[Len(rstack')].node].processed
          /\ handles => modelTree'[Top.node].processed]_vars
    /\ <>[][FALSE]_vars

\* traverseTree has returned from the root of a tree with a rho-relation,
\* seven nodes or more processed by their handlers
C35_Witness ==
    /\ rpc = "done"
    /\ replayRho # <<>>
    /\ Len(handled) >= 7

----------------------------------------------------------------------------
(* The hashes of the second generator script (lines 783-846), under Spec.  *)

\* computeTreeHash(pathTree, []) of line 1064 has run to its end
hashesComputed == computeTreeHash(<<>>) # "TypeError"

\* the nodes that have _hash, _hashMap and _prefixInRhoRelations after line
\* 1064.  The fields are assigned in lines 824-828, after the loops.  The
\* loops go over callChildren, newChildren, accessPropChildren,
\* writePropChildren and argChildren and not over requireChildren, of which
\* alone the root has any: a call for the root that comes to line 824
\* has called itself for no other node.
hashed == IF hashesComputed THEN {<<>>} ELSE {}

\* pathInRhoRelations(path): deepEqual(r[0], path) || deepEqual(r[1], path)
\* for a pair r of rhoRelations
pathInRhoRelations(path) ==
    \E k \in 1..Len(rhoRelations) :
        rhoRelations[k][1] = path \/ rhoRelations[k][2] = path

\* accumulatedPath.concat([currentNode.p]) in the call for the node of path:
\* the p of the root, null, comes first
accumulated(path) == <<[compType |-> "null"]>> \o path

\* node._prefixInRhoRelations is true
prefixInRhoRelations(path) ==
    path \in hashed /\ pathInRhoRelations(accumulated(path))

\* C32: when the second script has run computeTreeHash(pathTree, []) on the
\* tree traced, _prefixInRhoRelations is true of a node if and only if its
\* path or the path of a descendant is the source or the sink of a pair of
\* rhoRelations.
C32_PrefixFlagIffTouchesRho ==
    (Ended /\ argv.script = "second") =>
        \A path \in DOMAIN pathTree : prefixInRhoRelations(path) <=> touchesRho(path)

\* C38: when the second script has run computeTreeHash(pathTree, []) on the
\* tree traced, the root and every node below it have _hash, _hashMap and
\* _prefixInRhoRelations.
C38_EveryNodeHashed ==
    (Ended /\ argv.script = "second") =>
        \A path \in DOMAIN pathTree \cup {<<>>} : path \in hashed

\* currentNode.p.compType + 'Children'
childTypeOf(path) ==
    IF path = <<>> THEN "TypeError" ELSE path[Len(path)].compType

\* updateTreeHash(currentNode, childType, childKey) where the nodes of fields
\* have _hash and _hashMap: how the call ends.  The function has no return
\* statement before the call of itself in line 842, in which currentNode.p
\* is read: null at the root.  Before that _hashMap[childType] is written
\* (lines 834, 836): _hashMap has no key requireChildren, and under
\* argChildren the node holds for a callId the map of the arguments, which
\* has no _hash.
RECURSIVE updateTreeHash(_, _, _)
updateTreeHash(fields, currentNode, childType) ==
    IF currentNode \notin fields THEN "TypeError"
    ELSE IF childType \in {"require", "arg"} THEN "TypeError"
    ELSE IF currentNode = <<>> THEN "TypeError"
    ELSE updateTreeHash(fields, parentOf(currentNode), childTypeOf(currentNode))

\* C31: updateTreeHash(currentNode, 'callChildren', k2), called for the
\* parent of a call child that was removed, returns: with the fields as the
\* script has left them, and also where every node of the tree has them.
C31_UpdateTreeHashReturns ==
    \A path \in DOMAIN pathTree : path[Len(path)].compType = "call" =>
        \A fields \in {hashed, DOMAIN pathTree \cup {<<>>}} :
            updateTreeHash(fields, parentOf(path), "call") = "returned"

====
